---- MODULE Spec2Model ----
(***************************************************************************)
(* befunge-rsm: a Befunge-93 interpreter that runs during macro expansion. *)
(*   befunge-dm  the interpreter, written as macro_rules! macros           *)
(*   befunge-pm  procedural macros that talk to the interface processes    *)
(*   befunge-if  the interface process (one per socket name)               *)
(*                                                                         *)
(* A number is the token tree [[sign] [mag]]: the sign bracket holds the   *)
(* token pos, the token neg, or nothing, and mag is a list of [] tokens.   *)
(* Here it is the record [sgn, mag] with sgn in "pos", "neg", "none".      *)
(***************************************************************************)
EXTENDS Integers, Sequences, FiniteSets, TLC

VARIABLES
    ar,         \* arithmetic macro under expansion: [op, a, b, out]
    stack,      \* befunge_step's stack: argument, top of stack first
    dir,        \* befunge_step's dir: argument
    stringmode, \* befunge_step's stringmode: argument
    bridge,     \* befunge_step's bridge: argument
    progstate,  \* befunge_step's progstate: [pre, cur: [pre, cur, pst], pst]
    debug,      \* befunge_step's debug: argument (the flags of befunge!)
    phase,      \* which expansion comes next: "instr", "move", "await", ...
    last,       \* the rule expanded last
    conn,       \* the connection of the procedural macro being expanded
    xlog,       \* what the current instruction did on sockets, in order
    ifp,        \* the interface process: [state, err, expecting_ack, buf, got, sent]
    ld,         \* befunge_init under expansion: [text, done, out]
    report      \* the arguments befunge_error @unknowninstr was invoked with

interp == <<stack, dir, stringmode, bridge, progstate, debug>>
vars == <<ar, stack, dir, stringmode, bridge, progstate, debug, phase, last,
          conn, xlog, ifp, ld, report>>

(***************************************************************************)
(* Bounds of the model.                                                    *)
(***************************************************************************)
MaxOperand == 5     \* largest operand magnitude given to an arith macro
Columns == 6        \* cells per blank row of befunge_init (80 in the source)
Rows == 3           \* rows of befunge_init's grid (25 in the source)
MaxAnswer == 2      \* integers the user types lie in -MaxAnswer..MaxAnswer
MaxStack == 4       \* a rule that pushes is not expanded on a fuller stack
MaxMag == 150       \* an arithmetic result of larger magnitude is not pushed
MaxBuf == 2         \* the interface buffers at most this many printed items

(***************************************************************************)
(* Numbers (befunge-dm/src/arith.rs, module documentation)                 *)
(***************************************************************************)
Num(s, m) == [sgn |-> s, mag |-> m]

\* the macro fragment [$(pos)?] matches the sign brackets [pos] and []
pos_opt(n) == n.sgn \in {"pos", "none"}

\* the macro fragment [$sgn:tt] matches a sign bracket holding one token
one_tt(n) == n.sgn \in {"pos", "neg"}

\* the integer a number stands for
num_value(n) == IF n.sgn = "neg" THEN 0 - n.mag ELSE n.mag

NoOutcome == [ask |-> "pending", res |-> [sgn |-> "none", mag |-> 0]]

\* outcome of an arith macro: the callback's res argument, or a request
Res(n) == [ask |-> "none", res |-> n]
Ask(kind) == [ask |-> kind, res |-> Num("none", 0)]

(***************************************************************************)
(* arith_add / arith_sub: the rules are tried in order, first match wins.  *)
(***************************************************************************)
RECURSIVE arith_add(_, _)
RECURSIVE arith_sub(_, _)

\* exec_sub with its second rule signed like its first
exec_sub_same_sign(a, b, ge, lt) ==
    IF a >= b THEN Num(ge, a - b) ELSE Num(ge, b - a)

\* exec_sub of arith_sub's rules "a - b" and "(-a) - (-b)": the first rule
\* matches when b's magnitude is a prefix of a's, the second otherwise
exec_sub(a, b, ge, lt) ==
    IF a >= b THEN Num(ge, a - b) ELSE Num(lt, b - a)

arith_add(a, b) ==
    IF b.mag = 0 THEN a
    ELSE IF a.mag = 0 THEN b
    ELSE IF pos_opt(a) /\ pos_opt(b) THEN Num("pos", a.mag + b.mag)
    ELSE IF pos_opt(a) /\ b.sgn = "neg"
        THEN arith_sub(Num("pos", a.mag), Num("pos", b.mag))
    ELSE IF a.sgn = "neg" /\ pos_opt(b)
        THEN arith_sub(Num("pos", b.mag), Num("pos", a.mag))
    ELSE Num("neg", a.mag + b.mag)

arith_sub(a, b) ==
    IF b.mag = 0 THEN a
    ELSE IF a.mag = 0 /\ pos_opt(b) THEN Num("neg", b.mag)
    ELSE IF a.mag = 0 THEN Num("pos", b.mag)
    ELSE IF pos_opt(a) /\ pos_opt(b) THEN exec_sub(a.mag, b.mag, "pos", "neg")
    ELSE IF pos_opt(a) /\ b.sgn = "neg"
        THEN arith_add(Num("pos", a.mag), Num("pos", b.mag))
    ELSE IF a.sgn = "neg" /\ pos_opt(b)
        THEN arith_add(Num("neg", a.mag), Num("neg", b.mag))
    ELSE exec_sub(a.mag, b.mag, "neg", "pos")

(***************************************************************************)
(* arith_mul: |a| copies of b's magnitude, flattened by the @catch rule.   *)
(***************************************************************************)
RECURSIVE mul_copies(_, _)
mul_copies(a, b) == IF a = 0 THEN 0 ELSE b + mul_copies(a - 1, b)

arith_mul(a, b) ==
    IF pos_opt(a) /\ pos_opt(b) THEN Num("pos", mul_copies(a.mag, b.mag))
    ELSE IF a.sgn = "neg" /\ b.sgn = "neg"
        THEN Num("pos", mul_copies(a.mag, b.mag))
    ELSE Num("neg", mul_copies(a.mag, b.mag))

(***************************************************************************)
(* arith_div_mod: repeated subtraction of b from a (b is never empty when  *)
(* arith_div and arith_mod call it).                                       *)
(***************************************************************************)
RECURSIVE arith_div_mod_exec(_, _, _)
arith_div_mod_exec(left, b, div) ==
    IF left >= b THEN arith_div_mod_exec(left - b, b, div + 1)
    ELSE [div |-> div, mod |-> left]

arith_div_mod(a, b) == arith_div_mod_exec(a, b, 0)

\* the quotient signed by the dividend alone
arith_div_sign_of_a(a, b) == IF a.sgn = "neg" THEN "neg" ELSE "pos"

\* arith_div's rules "@asgn @bsgn div: .. mod: .." that sign the quotient
arith_div_sign(a, b) ==
    IF pos_opt(a) /\ pos_opt(b) THEN "pos"
    ELSE IF a.sgn = "neg" /\ pos_opt(b) THEN "neg"
    ELSE IF pos_opt(a) /\ b.sgn = "neg" THEN "neg"
    ELSE "pos"

arith_div(a, b) ==
    IF a.mag = 0 THEN Res(Num("pos", 0))
    ELSE IF b.mag = 0 THEN Ask("DivByZero")
    ELSE IF pos_opt(b) /\ b.mag = 1 THEN Res(a)
    ELSE IF pos_opt(a) /\ b.sgn = "neg" /\ b.mag = 1 THEN Res(Num("neg", a.mag))
    ELSE IF a.sgn = "neg" /\ b.sgn = "neg" /\ b.mag = 1 THEN Res(Num("pos", a.mag))
    ELSE IF a.mag >= b.mag
        THEN Res(Num(arith_div_sign(a, b), arith_div_mod(a.mag, b.mag).div))
    ELSE Res(Num("pos", 0))

\* arith_mod with the remainder signed by the divisor
arith_mod_sign_of_b(a, b) ==
    IF b.mag = 0 THEN Ask("ModByZero")
    ELSE IF a.mag >= b.mag
        THEN Res(Num(b.sgn, arith_div_mod(a.mag, b.mag).mod))
    ELSE Res(Num(b.sgn, a.mag))

arith_mod(a, b) ==
    IF b.mag = 0 THEN Ask("ModByZero")
    ELSE IF a.mag >= b.mag
        THEN Res(Num(a.sgn, arith_div_mod(a.mag, b.mag).mod))
    ELSE Res(a)

(***************************************************************************)
(* Cells and the program grid.  A cell is a character literal, or (after   *)
(* a put) a number; ch = "" marks a number cell.                           *)
(***************************************************************************)
CharCell(c) == [ch |-> c, sgn |-> "none", mag |-> 0]

blank_row_marked(n) == [i \in 1..n |-> CharCell("a")]

blank_row(n) == [i \in 1..n |-> CharCell(" ")]

\* the row a row zipper [pre, cur, pst] stands for
row_of(cur) == cur.pre \o <<cur.cur>> \o cur.pst

(***************************************************************************)
(* befunge_init (befunge-dm/src/init.rs): the program text is written over *)
(* a blank grid.  The first row is one cur cell and Columns pst cells,     *)
(* every further row is Columns cells.                                     *)
(***************************************************************************)
RECURSIVE befunge_init_lines(_, _, _, _)
befunge_init_lines(input, pre, cur, pst) ==
    IF input = <<>>
        THEN [err |-> "none", program |-> pre \o <<row_of(cur)>> \o pst]
    ELSE IF Head(input) = "\n" /\ Len(input) > 1 /\ pst = <<>>
        THEN [err |-> "initerr rows", program |-> <<>>]
    ELSE IF Head(input) = "\n" /\ Len(input) > 1
        THEN befunge_init_lines(Tail(input), pre \o <<row_of(cur)>>,
                 [pre |-> <<>>, cur |-> Head(Head(pst)), pst |-> Tail(Head(pst))],
                 Tail(pst))
    ELSE IF input = <<"\n">>
        THEN befunge_init_lines(<<>>, pre, cur, pst)
    ELSE IF cur.pst = <<>>
        THEN [err |-> "initerr cols", program |-> <<>>]
    ELSE befunge_init_lines(Tail(input), pre,
             [pre |-> cur.pre \o <<CharCell(Head(input))>>,
              cur |-> Head(cur.pst), pst |-> Tail(cur.pst)],
             pst)

befunge_init(input) ==
    befunge_init_lines(input, <<>>,
        [pre |-> <<>>, cur |-> CharCell(" "), pst |-> blank_row(Columns)],
        [r \in 1..(Rows - 1) |-> blank_row(Columns)])

\* befunge_step's @init rule: the pointer starts on the first cell
befunge_step_init(program) ==
    [pre |-> <<>>,
     cur |-> [pre |-> <<>>, cur |-> Head(Head(program)), pst |-> Tail(Head(program))],
     pst |-> Tail(program)]

(***************************************************************************)
(* List helpers (befunge-dm/src/list.rs)                                   *)
(***************************************************************************)
list_init_last(list) ==
    [init |-> SubSeq(list, 1, Len(list) - 1), last |-> list[Len(list)]]

\* no rule of the macro matches when the list is shorter than lenof
list_split_at_length_of(lenof, split) ==
    [ok |-> lenof <= Len(split),
     l |-> SubSeq(split, 1, lenof),
     r |-> SubSeq(split, lenof + 1, Len(split))]

(***************************************************************************)
(* befunge_step @move (befunge-dm/src/step.rs).  Each operator gives the   *)
(* new progstate, or ok = FALSE when the expansion ends in a compile       *)
(* error because no rule takes the tokens produced.                        *)
(***************************************************************************)
NoMove(ps) == [ok |-> FALSE, ps |-> ps]

\* the row split at the pointer's column; the callbacks need a cell in r
enter_row(row, col) ==
    LET s == list_split_at_length_of(col, row)
    IN  [ok |-> s.ok /\ s.r # <<>>,
         cur |-> [pre |-> s.l,
                  cur |-> IF s.ok /\ s.r # <<>> THEN Head(s.r) ELSE CharCell(" "),
                  pst |-> IF s.ok /\ s.r # <<>> THEN Tail(s.r) ELSE <<>>]]

move_right_losing_cur(ps) ==
    IF ps.cur.pst # <<>>
        THEN [ok |-> TRUE,
              ps |-> [ps EXCEPT !.cur = [pre |-> ps.cur.pre \o <<CharCell(" ")>>,
                                         cur |-> Head(ps.cur.pst),
                                         pst |-> Tail(ps.cur.pst)]]]
    ELSE IF ps.cur.pre # <<>>
        THEN [ok |-> TRUE,
              ps |-> [ps EXCEPT !.cur = [pre |-> <<>>,
                                         cur |-> Head(ps.cur.pre),
                                         pst |-> Tail(ps.cur.pre) \o <<CharCell(" ")>>]]]
    ELSE NoMove(ps)

move_right(ps) ==
    IF ps.cur.pst # <<>>
        THEN [ok |-> TRUE,
              ps |-> [ps EXCEPT !.cur = [pre |-> ps.cur.pre \o <<ps.cur.cur>>,
                                         cur |-> Head(ps.cur.pst),
                                         pst |-> Tail(ps.cur.pst)]]]
    ELSE IF ps.cur.pre # <<>>
        THEN [ok |-> TRUE,
              ps |-> [ps EXCEPT !.cur = [pre |-> <<>>,
                                         cur |-> Head(ps.cur.pre),
                                         pst |-> Tail(ps.cur.pre) \o <<ps.cur.cur>>]]]
    ELSE NoMove(ps)

\* the wrapping rule calls list_init_last with "@init," which no rule of
\* list_init_last takes: moving left from the first column ends the run
move_left(ps) ==
    IF ps.cur.pre # <<>>
        THEN LET il == list_init_last(ps.cur.pre)
             IN  [ok |-> TRUE,
                  ps |-> [ps EXCEPT !.cur = [pre |-> il.init,
                                             cur |-> il.last,
                                             pst |-> <<ps.cur.cur>> \o ps.cur.pst]]]
    ELSE NoMove(ps)

move_down(ps) ==
    IF ps.pst # <<>>
        THEN LET e == enter_row(Head(ps.pst), Len(ps.cur.pre))
             IN  [ok |-> e.ok,
                  ps |-> [pre |-> ps.pre \o <<row_of(ps.cur)>>,
                          cur |-> e.cur,
                          pst |-> Tail(ps.pst)]]
    ELSE IF ps.pre # <<>>
        THEN LET e == enter_row(Head(ps.pre), Len(ps.cur.pre))
             IN  [ok |-> e.ok,
                  ps |-> [pre |-> <<>>,
                          cur |-> e.cur,
                          pst |-> Tail(ps.pre) \o <<row_of(ps.cur)>>]]
    ELSE NoMove(ps)

move_up(ps) ==
    IF ps.pre # <<>>
        THEN LET il == list_init_last(ps.pre)
                 e == enter_row(il.last, Len(ps.cur.pre))
             IN  [ok |-> e.ok,
                  ps |-> [pre |-> il.init,
                          cur |-> e.cur,
                          pst |-> <<row_of(ps.cur)>> \o ps.pst]]
    ELSE IF ps.pst # <<>>
        THEN LET il == list_init_last(ps.pst)
                 e == enter_row(il.last, Len(ps.cur.pre))
             IN  [ok |-> e.ok,
                  ps |-> [pre |-> <<row_of(ps.cur)>> \o il.init,
                          cur |-> e.cur,
                          pst |-> <<>>]]
    ELSE NoMove(ps)

move(ps, d) ==
    CASE d = "right" -> move_right(ps)
      [] d = "left" -> move_left(ps)
      [] d = "down" -> move_down(ps)
      [] OTHER -> move_up(ps)

(***************************************************************************)
(* The socket protocol as the procedural macros speak it                   *)
(* (befunge-pm/src/lib.rs, befunge-if/src/lib.rs).                         *)
(***************************************************************************)
Msg(k, v) == [kind |-> k, val |-> v]
Ev(e, w, v) == [ev |-> e, what |-> w, val |-> v]

NoConn == [sock |-> "", req |-> Msg("", 0), inbox |-> <<>>, cb |-> ""]

IntAnswers == (0 - MaxAnswer)..MaxAnswer
AsciiAnswers == {0, 10, 65}

\* what may arrive on the connection: any value of enum Request the peer
\* writes, or a read error (the peer closed, or sent bytes that do not parse)
Replies ==
    {Msg("Ack", 0), Msg("Nack", 0), Msg("Err", 0)}
    \cup {Msg(k, n) : k \in {"DivByZeroAns", "ModByZeroAns", "GetIntegerAns"},
                      n \in IntAnswers}
    \cup {Msg("GetAsciiAns", c) : c \in AsciiAnswers}

\* the one reply each procedural macro's match accepts
awaited_reply(req) ==
    CASE req = "DivByZero" -> "DivByZeroAns"
      [] req = "ModByZero" -> "ModByZeroAns"
      [] req = "GetInteger" -> "GetIntegerAns"
      [] req = "GetAscii" -> "GetAsciiAns"
      [] OTHER -> "Ack"

\* interface.rs: an isize as a base-1 number
isize_to_base1(n) == IF n < 0 THEN Num("neg", 0 - n) ELSE Num("pos", n)

\* the code of a character literal of the program text ("grave" stands for
\* the grave accent, which a TLA+ string cannot hold)
ascii_printable ==
    <<" ", "!", "\"", "#", "$", "%", "&", "'", "(", ")", "*", "+", ",", "-", ".",
      "/", "0", "1", "2", "3", "4", "5", "6", "7", "8", "9", ":", ";", "<", "=",
      ">", "?", "@", "A", "B", "C", "D", "E", "F", "G", "H", "I", "J", "K", "L",
      "M", "N", "O", "P", "Q", "R", "S", "T", "U", "V", "W", "X", "Y", "Z", "[",
      "\\", "]", "^", "_", "grave", "a", "b", "c", "d", "e", "f", "g", "h", "i", "j",
      "k", "l", "m", "n", "o", "p", "q", "r", "s", "t", "u", "v", "w", "x", "y",
      "z", "{", "|", "}", "~">>

ascii_code(c) ==
    31 + (CHOOSE i \in 1..Len(ascii_printable) : ascii_printable[i] = c)

\* char_to_code! (its source is not in the repository): the character's code
char_to_code(code) == Num("pos", code)

\* code_to_char! (its source is not in the repository) followed by
\* print_ascii's "ascii as u8": the byte sent for a number
code_to_char(n) == num_value(n) % 256

(***************************************************************************)
(* Pieces shared by the rules of befunge_step @instr                       *)
(***************************************************************************)
Cur == progstate.cur.cur.ch

normal(c) == phase = "instr" /\ ~stringmode /\ ~bridge /\ Cur = c

NoOperand == Num("none", 0)

operand(st, i) == IF Len(st) >= i THEN st[i] ELSE NoOperand

drop_nothing(st, n) == st

drop(st, n) == IF Len(st) <= n THEN <<>> ELSE SubSeq(st, n + 1, Len(st))

\* the rule expands to befunge_step @move (or ends the expansion)
Goto(p, rule) ==
    /\ phase' = p
    /\ last' = rule
    /\ conn' = NoConn
    /\ xlog' = <<>>
    /\ UNCHANGED <<ar, ld, report, ifp, debug>>

\* the expansion ends in a compile error
Fatal(rule) ==
    /\ Goto("error", rule)
    /\ UNCHANGED <<stack, dir, stringmode, bridge, progstate>>

Request_without_waiting(sock, req, cb, rule) ==
    /\ conn' = [sock |-> sock, req |-> req, inbox |-> <<>>, cb |-> cb]
    /\ xlog' = <<Ev("connect", sock, 0), Ev("send", req.kind, req.val)>>
    /\ phase' = "move"
    /\ last' = rule
    /\ UNCHANGED <<ar, ld, report, ifp, debug>>

\* a procedural macro connects (InterfaceConn::parse), writes its request,
\* flushes, and blocks in from_reader; a failure before that is do_or_err!
Request(sock, req, cb, rule) ==
    /\ \E up \in BOOLEAN :
        IF up
        THEN /\ conn' = [sock |-> sock, req |-> req, inbox |-> <<>>, cb |-> cb]
             /\ xlog' = <<Ev("connect", sock, 0), Ev("send", req.kind, req.val)>>
             /\ phase' = "await"
        ELSE /\ conn' = NoConn
             /\ xlog' = <<Ev("failed", sock, 0)>>
             /\ phase' = "error"
    /\ last' = rule
    /\ UNCHANGED <<ar, ld, report, ifp, debug>>

(***************************************************************************)
(* befunge_step @instr, stringmode and bridge rules                        *)
(***************************************************************************)
\* in stringmode: '"' leaves it, a character is pushed as its code; on a
\* number cell the rule expands to tokens no @move rule takes
StringModeStep ==
    /\ phase = "instr" /\ stringmode /\ ~bridge
    /\ IF Cur = "\""
       THEN /\ stringmode' = FALSE
            /\ Goto("move", "STRINGMODE end")
            /\ UNCHANGED <<stack, dir, bridge, progstate>>
       ELSE IF Cur = ""
       THEN Fatal("STRINGMODE number")
       ELSE /\ Len(stack) < MaxStack
            /\ stack' = <<char_to_code(ascii_code(Cur))>> \o stack
            /\ Goto("move", "STRINGMODE char")
            /\ UNCHANGED <<dir, stringmode, bridge, progstate>>

BridgeSkip_keeping_bridge ==
    /\ phase = "instr" /\ ~stringmode /\ bridge
    /\ bridge' = TRUE
    /\ Goto("move", "bridge")
    /\ UNCHANGED <<stack, dir, stringmode, progstate>>

BridgeSkip ==
    /\ phase = "instr" /\ ~stringmode /\ bridge
    /\ bridge' = FALSE
    /\ Goto("move", "bridge")
    /\ UNCHANGED <<stack, dir, stringmode, progstate>>

Instr_EMP ==
    /\ normal(" ")
    /\ Goto("move", "EMP")
    /\ UNCHANGED <<stack, dir, stringmode, bridge, progstate>>

(***************************************************************************)
(* Arithmetic instructions                                                 *)
(***************************************************************************)
\* the callback @catch @arith pushes res and expands to @move
catch_arith(res, rest, rule) ==
    /\ res.mag <= MaxMag
    /\ stack' = <<res>> \o rest
    /\ Goto("move", rule)
    /\ UNCHANGED <<dir, stringmode, bridge, progstate>>

Instr_ADD ==
    /\ normal("+")
    /\ catch_arith(arith_add(operand(stack, 1), operand(stack, 2)),
                   drop(stack, 2), "ADD")

Instr_SUB ==
    /\ normal("-")
    /\ catch_arith(arith_sub(operand(stack, 2), operand(stack, 1)),
                   drop(stack, 2), "SUB")

Instr_MUL ==
    /\ normal("*")
    /\ catch_arith(arith_mul(operand(stack, 1), operand(stack, 2)),
                   drop(stack, 2), "MUL")

\* the stack pattern of the '/' and '%' rules: each operand present has a
\* sign bracket holding exactly one token ([[$stack0sgn:tt] [...]])
divmod_matches(st) ==
    /\ Len(st) >= 1 => one_tt(st[1])
    /\ Len(st) >= 2 => one_tt(st[2])

\* the transcriber of the '/' and '%' rules repeats $stack0sgn, bound at
\* depth 1, inside $(...)? (the socket_debug_default! arguments): with an
\* operand on the stack rustc rejects the expansion ("attempted to repeat
\* an expression containing no syntax variables matched as repeating at
\* this depth"); with the empty stack the repetition is never entered
divmod_transcribes(st) == st = <<>>

\* a / b or a % b with a = stack[1] (second from top), b = stack[0]
divmod(out, rule, ask) ==
    IF ~divmod_transcribes(stack)
    THEN Fatal(rule)
    ELSE IF out.ask = "none"
    THEN catch_arith(out.res, drop(stack, 2), rule)
    ELSE /\ stack' = drop(stack, 2)
         /\ Request("befunge.input", Msg(ask, 0), "arith", rule)
         /\ UNCHANGED <<dir, stringmode, bridge, progstate>>

Instr_DIV ==
    /\ normal("/")
    /\ divmod_matches(stack)
    /\ divmod(arith_div(operand(stack, 2), operand(stack, 1)), "DIV", "DivByZero")

Instr_MOD ==
    /\ normal("%")
    /\ divmod_matches(stack)
    /\ divmod(arith_mod(operand(stack, 2), operand(stack, 1)), "MOD", "ModByZero")

(***************************************************************************)
(* Logic and comparison                                                    *)
(***************************************************************************)
\* '!': the first rule takes the empty stack and a zero of any sign, the
\* second a nonzero number whose sign bracket holds one token
not_matches(st) ==
    IF st = <<>> THEN TRUE ELSE st[1].mag = 0 \/ one_tt(st[1])

Instr_NOT ==
    /\ normal("!")
    /\ not_matches(stack)
    /\ Len(stack) < MaxStack
    /\ stack' = IF stack = <<>> \/ stack[1].mag = 0
                THEN <<Num("pos", 1)>> \o drop(stack, 1)
                ELSE <<Num("pos", 0)>> \o drop(stack, 1)
    /\ Goto("move", "NOT")
    /\ UNCHANGED <<dir, stringmode, bridge, progstate>>

\* the seven rules of '`', in order; top is stack[0], bot is stack[1]
grt(st) ==
    LET top == operand(st, 1)
        bot == operand(st, 2)
        rest == drop(st, 2)
    IN  IF st = <<>> \/ (Len(st) = 1 /\ top.mag = 0) THEN <<Num("pos", 0)>>
        ELSE IF Len(st) = 1 /\ pos_opt(top) THEN <<Num("pos", 0)>>
        ELSE IF Len(st) = 1 THEN <<Num("pos", 1)>>
        ELSE IF pos_opt(top) /\ bot.sgn = "neg" THEN <<Num("pos", 0)>> \o rest
        ELSE IF top.sgn = "neg" /\ pos_opt(bot) THEN <<Num("pos", 1)>> \o rest
        ELSE IF pos_opt(top) /\ pos_opt(bot)
            THEN <<Num("pos", IF bot.mag > top.mag THEN 1 ELSE 0)>> \o rest
        ELSE <<Num("pos", IF bot.mag > top.mag THEN 0 ELSE 1)>> \o rest

Instr_GRT ==
    /\ normal("grave")
    /\ Len(stack) < MaxStack
    /\ stack' = grt(stack)
    /\ Goto("move", "GRT")
    /\ UNCHANGED <<dir, stringmode, bridge, progstate>>

(***************************************************************************)
(* Direction                                                               *)
(***************************************************************************)
pc_dir_mirrored(c) ==
    CASE c = ">" -> "left"
      [] c = "<" -> "right"
      [] c = "^" -> "up"
      [] OTHER -> "down"

pc_dir(c) ==
    CASE c = ">" -> "right"
      [] c = "<" -> "left"
      [] c = "^" -> "up"
      [] OTHER -> "down"

Instr_PC ==
    /\ phase = "instr" /\ ~stringmode /\ ~bridge
    /\ Cur \in {">", "<", "^", "v"}
    /\ dir' = pc_dir(Cur)
    /\ Goto("move", "PC")
    /\ UNCHANGED <<stack, stringmode, bridge, progstate>>

Instr_PC_random_never_up ==
    /\ normal("?")
    /\ \E d \in {"right", "left", "down"} : dir' = d
    /\ Goto("move", "PC?")
    /\ UNCHANGED <<stack, stringmode, bridge, progstate>>

\* '?': choose_random! picks one of the four directions
Instr_PC_random ==
    /\ normal("?")
    /\ \E d \in {"right", "left", "up", "down"} : dir' = d
    /\ Goto("move", "PC?")
    /\ UNCHANGED <<stack, stringmode, bridge, progstate>>

\* '_' and '|': the first rule takes the empty stack and a zero of any sign
Instr_IFH ==
    /\ normal("_")
    /\ dir' = IF stack = <<>> \/ stack[1].mag = 0 THEN "right" ELSE "left"
    /\ stack' = drop(stack, 1)
    /\ Goto("move", "IFH")
    /\ UNCHANGED <<stringmode, bridge, progstate>>

Instr_IFV ==
    /\ normal("|")
    /\ dir' = IF stack = <<>> \/ stack[1].mag = 0 THEN "down" ELSE "up"
    /\ stack' = drop(stack, 1)
    /\ Goto("move", "IFV")
    /\ UNCHANGED <<stringmode, bridge, progstate>>

Instr_STG_under_bridge ==
    /\ phase = "instr" /\ ~stringmode /\ Cur = "\""
    /\ stringmode' = TRUE
    /\ Goto("move", "STG")
    /\ UNCHANGED <<stack, dir, bridge, progstate>>

Instr_STG ==
    /\ normal("\"")
    /\ stringmode' = TRUE
    /\ Goto("move", "STG")
    /\ UNCHANGED <<stack, dir, bridge, progstate>>

Instr_BDG ==
    /\ normal("#")
    /\ bridge' = TRUE
    /\ Goto("move", "BDG")
    /\ UNCHANGED <<stack, dir, stringmode, progstate>>

(***************************************************************************)
(* Stack                                                                   *)
(***************************************************************************)
Instr_DUP_pushing_zero ==
    /\ normal(":")
    /\ Len(stack) < MaxStack
    /\ stack' = <<NoOperand>> \o stack
    /\ Goto("move", "DUP")
    /\ UNCHANGED <<dir, stringmode, bridge, progstate>>

Instr_DUP ==
    /\ normal(":")
    /\ Len(stack) < MaxStack
    /\ stack' = <<operand(stack, 1), operand(stack, 1)>> \o drop(stack, 1)
    /\ Goto("move", "DUP")
    /\ UNCHANGED <<dir, stringmode, bridge, progstate>>

\* '\': the transcriber writes $($stack0sgn)? for a variable bound two
\* repetitions deep, so with an element on the stack rustc rejects the
\* expansion ("variable 'stack0sgn' is still repeating at this depth")
Instr_SWP ==
    /\ normal("\\")
    /\ IF stack = <<>>
       THEN /\ stack' = <<NoOperand, NoOperand>>
            /\ Goto("move", "SWP")
            /\ UNCHANGED <<dir, stringmode, bridge, progstate>>
       ELSE Fatal("SWP")

\* '$': the socket_debug_default! arguments repeat $stack0sgn and
\* $stack0val, which the rule's pattern does not bind, so rustc rejects
\* every expansion of the rule
Instr_POP ==
    /\ normal("$")
    /\ Fatal("POP")

Digits == <<"0", "1", "2", "3", "4", "5", "6", "7", "8", "9">>

Instr_NM ==
    /\ phase = "instr" /\ ~stringmode /\ ~bridge
    /\ \E d \in 1..Len(Digits) :
        /\ Cur = Digits[d]
        /\ Len(stack) < MaxStack
        /\ stack' = <<Num("pos", d - 1)>> \o stack
    /\ Goto("move", "NM")
    /\ UNCHANGED <<dir, stringmode, bridge, progstate>>

(***************************************************************************)
(* Program memory: g and p                                                 *)
(***************************************************************************)
\* all rows of the program, as the rules reassemble them from progstate
rows_of(ps) == ps.pre \o <<row_of(ps.cur)>> \o ps.pst

\* befunge_step_get_coord_check / befunge_step_put_coord_check: a macro
\* defined on the spot whose first rule takes an xcheck list of at least x
\* and a ycheck list of at least y groups; it is invoked with Columns - 1
\* and Rows - 1 groups
coord_check(x, y) == x <= Columns - 1 /\ y <= Rows - 1

\* code_to_char_pretty! (its source is not in the repository): it calls
\* back with "char:" in one of the shapes the callers' rules are written
\* for, [-c], [c] or [c, d]
code_to_char_pretty(n) ==
    IF n.sgn = "neg" /\ n.mag > 0 THEN "[-c]"
    ELSE IF n.mag < 128 THEN "[c]"
    ELSE "[c, d]"

\* @catch @get @splitrow, @catch @get @push and @catch @get @char_to_code:
\* the rows are split at y, the row at x, and the cell found is pushed (a
\* number as it is, a character as its code)
get_cell(ps, x, y) ==
    LET rows == list_split_at_length_of(y, rows_of(ps))
        rok == rows.ok /\ rows.r # <<>>
        cols == list_split_at_length_of(x, IF rok THEN Head(rows.r) ELSE <<>>)
        cok == rok /\ cols.ok /\ cols.r # <<>>
        cell == IF cok THEN Head(cols.r) ELSE CharCell(" ")
    IN  [ok |-> cok,
         num |-> IF cell.ch = "" THEN Num(cell.sgn, cell.mag)
                 ELSE char_to_code(ascii_code(cell.ch))]

\* 'g': y is the top of the stack and x the element under it
\*  rule 1: y negative: 0 is pushed in place of the (up to two) operands
\*  rule 2: x negative: as rule 1, but the transcriber repeats $stackrest
\*          one level deeper than it is bound, which rustc rejects as soon
\*          as there is an element under x
\*  rule 3: the coordinate check; its second rule passes on "$progstate",
\*          which the enclosing rule does not bind, so out of bounds no
\*          @move rule takes the tokens
Instr_GET ==
    /\ normal("g")
    /\ LET y == operand(stack, 1)
           x == operand(stack, 2)
           found == get_cell(progstate, x.mag, y.mag)
       IN  IF y.sgn = "neg"
           THEN /\ stack' = <<Num("pos", 0)>> \o drop(stack, 2)
                /\ Goto("move", "GET y negative")
                /\ UNCHANGED <<dir, stringmode, bridge, progstate>>
           ELSE IF x.sgn = "neg"
           THEN IF Len(stack) > 2
                THEN Fatal("GET x negative")
                ELSE /\ stack' = <<Num("pos", 0)>>
                     /\ Goto("move", "GET x negative")
                     /\ UNCHANGED <<dir, stringmode, bridge, progstate>>
           ELSE IF coord_check(x.mag, y.mag) /\ found.ok
           THEN /\ stack' = <<found.num>> \o drop(stack, 2)
                /\ Goto("move", "GET")
                /\ UNCHANGED <<dir, stringmode, bridge, progstate>>
           ELSE Fatal("GET out of bounds")

put_place_nowhere(ps, x, y, put) == [ok |-> TRUE, ps |-> ps]

put_place_at_origin(ps, x, y, put) ==
    LET rows == list_split_at_length_of(y, rows_of(ps))
        rok == rows.ok /\ rows.r # <<>>
        cols == list_split_at_length_of(x, IF rok THEN Head(rows.r) ELSE <<>>)
        cok == rok /\ cols.ok /\ cols.r # <<>>
        placed == IF cok
                  THEN rows.l \o <<cols.l \o <<put>> \o Tail(cols.r)>>
                           \o Tail(rows.r)
                  ELSE rows_of(ps)
    IN  [ok |-> cok, ps |-> befunge_step_init(placed)]

\* @catch @put @splitrow @place, @splitcol @place, @splitrow @newps and
\* @newps: the cell at (x, y) is replaced by the number put, and the rows
\* are split again at the pointer's row and column
put_place(ps, x, y, put) ==
    LET rows == list_split_at_length_of(y, rows_of(ps))
        rok == rows.ok /\ rows.r # <<>>
        cols == list_split_at_length_of(x, IF rok THEN Head(rows.r) ELSE <<>>)
        cok == rok /\ cols.ok /\ cols.r # <<>>
        placed == IF cok
                  THEN rows.l \o <<cols.l \o <<put>> \o Tail(cols.r)>>
                           \o Tail(rows.r)
                  ELSE rows_of(ps)
        newrows == list_split_at_length_of(Len(ps.pre), placed)
        newcur == list_split_at_length_of(Len(ps.cur.pre), Head(newrows.r))
    IN  [ok |-> cok,
         ps |-> [pre |-> newrows.l,
                 cur |-> [pre |-> newcur.l,
                          cur |-> Head(newcur.r),
                          pst |-> Tail(newcur.r)],
                 pst |-> Tail(newrows.r)]]

\* 'p': y is the top of the stack, x the element under it, then the value
\*  rule 1: y negative: the (up to three) operands are dropped
\*  rule 2: x negative, or y alone on the stack: likewise
\*  rule 3: code_to_char_pretty! and its callback @catch @put: on the
\*          empty stack the callback gets "y: ," which no rule takes; in
\*          bounds the number is placed; out of bounds the coordinate
\*          check expands to a debug line only, and nothing follows
Instr_PUT ==
    /\ normal("p")
    /\ LET y == operand(stack, 1)
           x == operand(stack, 2)
           orig == operand(stack, 3)
           placed == put_place(progstate, x.mag, y.mag,
                               [ch |-> "", sgn |-> orig.sgn, mag |-> orig.mag])
       IN  IF stack # <<>> /\ y.sgn = "neg"
           THEN /\ stack' = drop(stack, 3)
                /\ Goto("move", "PUT y negative")
                /\ UNCHANGED <<dir, stringmode, bridge, progstate>>
           ELSE IF Len(stack) = 1 \/ (Len(stack) >= 2 /\ x.sgn = "neg")
           THEN /\ stack' = drop(stack, 3)
                /\ Goto("move", "PUT x negative")
                /\ UNCHANGED <<dir, stringmode, bridge, progstate>>
           ELSE IF stack = <<>>
                   \/ code_to_char_pretty(orig) \notin {"[-c]", "[c]", "[c, d]"}
           THEN Fatal("PUT no coordinates")
           ELSE IF coord_check(x.mag, y.mag) /\ placed.ok
           THEN /\ stack' = drop(stack, 3)
                /\ progstate' = placed.ps
                /\ Goto("move", "PUT")
                /\ UNCHANGED <<dir, stringmode, bridge>>
           ELSE /\ Goto("dropped", "PUT out of bounds")
                /\ UNCHANGED <<stack, dir, stringmode, bridge, progstate>>

(***************************************************************************)
(* Input and output                                                        *)
(***************************************************************************)
\* '.': print_integer! with the top of the stack (0 on the empty stack)
Instr_INT ==
    /\ normal(".")
    /\ stack' = drop(stack, 1)
    /\ Request("befunge.output", Msg("PrintInteger", num_value(operand(stack, 1))),
               "move", "INT")
    /\ UNCHANGED <<dir, stringmode, bridge, progstate>>

\* ',': code_to_char! and then print_ascii!
Instr_CHR ==
    /\ normal(",")
    /\ stack' = drop(stack, 1)
    /\ Request("befunge.output", Msg("PrintAscii", code_to_char(operand(stack, 1))),
               "move", "CHR")
    /\ UNCHANGED <<dir, stringmode, bridge, progstate>>

\* '&': get_integer!, callback @catch @ini
Instr_INI ==
    /\ normal("&")
    /\ Len(stack) < MaxStack
    /\ Request("befunge.input", Msg("GetInteger", 0), "ini", "INI")
    /\ UNCHANGED <<stack, dir, stringmode, bridge, progstate>>

\* '~': get_ascii!, callback @catch @inc @get_ascii
Instr_INC ==
    /\ normal("~")
    /\ Len(stack) < MaxStack
    /\ Request("befunge.input", Msg("GetAscii", 0), "inc", "INC")
    /\ UNCHANGED <<stack, dir, stringmode, bridge, progstate>>

\* close_ui!: connect, write CloseUi, flush; no reply is read
close_ui(sock, up) ==
    IF up THEN <<Ev("connect", sock, 0), Ev("send", "CloseUi", 0)>>
    ELSE <<Ev("failed", sock, 0)>>

Instr_END_always_flushing ==
    /\ normal("@")
    /\ Request("befunge.output", Msg("FlushOutput", 0), "end", "END")
    /\ UNCHANGED <<stack, dir, stringmode, bridge, progstate>>

\* '@': with closeonend, close_ui! on both sockets (no reply is read);
\* otherwise flush_output! unless noflush.  No @move follows.
Instr_END ==
    /\ normal("@")
    /\ IF "closeonend" \in debug
       THEN /\ \E up_out \in BOOLEAN, up_in \in BOOLEAN :
                 /\ xlog' = close_ui("befunge.output", up_out)
                                \o close_ui("befunge.input", up_in)
                 /\ phase' = IF up_out /\ up_in THEN "halted" ELSE "error"
            /\ conn' = NoConn
            /\ last' = "END"
            /\ UNCHANGED <<ar, ld, report, ifp, debug>>
       ELSE IF "noflush" \in debug
       THEN Goto("halted", "END")
       ELSE Request("befunge.output", Msg("FlushOutput", 0), "end", "END")
    /\ UNCHANGED <<stack, dir, stringmode, bridge, progstate>>

\* the characters some rule above (or get and put) is written for
Instructions ==
    {" ", "+", "-", "*", "/", "%", "!", "grave", ">", "<", "^", "v", "?", "_", "|",
     "\"", ":", "\\", "$", ".", ",", "#", "g", "p", "&", "~", "@",
     "0", "1", "2", "3", "4", "5", "6", "7", "8", "9"}

\* befunge_error @unknowninstr is invoked with the cell, the number of
\* rows before the pointer's row, the number of cells before the pointer
\* in its row, the stack and the direction
NoReport == [instr |-> "", sgn |-> "none", mag |-> 0, row |-> 0, col |-> 0,
             stack |-> <<>>, dir |-> ""]

befunge_error_unknowninstr_transposed(cell, ps, st, d) ==
    [instr |-> cell.ch, sgn |-> cell.sgn, mag |-> cell.mag,
     row |-> Len(ps.cur.pre), col |-> Len(ps.pre), stack |-> st, dir |-> d]

befunge_error_unknowninstr(cell, ps, st, d) ==
    [instr |-> cell.ch, sgn |-> cell.sgn, mag |-> cell.mag,
     row |-> Len(ps.pre), col |-> Len(ps.cur.pre), stack |-> st, dir |-> d]

\* the last @instr rule takes any cell when stringmode is off: it expands
\* to befunge_error! @unknowninstr, a compile error
Instr_UNKNOWN ==
    /\ phase = "instr" /\ ~stringmode /\ ~bridge
    /\ IF Cur \in {"/", "%"} THEN ~divmod_matches(stack)
       ELSE IF Cur = "!" THEN ~not_matches(stack)
       ELSE Cur \notin Instructions
    /\ report' = befunge_error_unknowninstr(progstate.cur.cur, progstate, stack, dir)
    /\ phase' = "error"
    /\ last' = "UNKNOWN"
    /\ conn' = NoConn
    /\ xlog' = <<>>
    /\ UNCHANGED <<ar, ld, ifp, interp>>

(***************************************************************************)
(* The reply                                                               *)
(***************************************************************************)
\* the peer on the socket answers, or the read fails
InterfaceReplies ==
    /\ phase = "await"
    /\ conn.inbox = <<>>
    /\ \E m \in Replies : conn' = [conn EXCEPT !.inbox = <<m>>]
    /\ UNCHANGED <<ar, ld, report, ifp, stack, dir, stringmode, bridge, progstate, debug,
                   phase, last, xlog>>

\* the stack the callback of the procedural macro continues with
callback_stack(cb, m, st) ==
    CASE cb \in {"arith", "ini"} -> <<isize_to_base1(m.val)>> \o st
      [] cb = "inc" -> <<char_to_code(m.val)>> \o st
      [] OTHER -> st

\* what the macro does on the socket once from_reader has returned m: on
\* the awaited reply it writes CloseConnection and flushes
reply_events_unclosed(m, awaited, up) == <<Ev("recv", m.kind, m.val)>>

reply_events(m, awaited, up) ==
    IF ~awaited THEN <<Ev("recv", m.kind, m.val)>>
    ELSE IF up THEN <<Ev("recv", m.kind, m.val), Ev("send", "CloseConnection", 0)>>
    ELSE <<Ev("recv", m.kind, m.val), Ev("failed", "CloseConnection", 0)>>

\* where the expansion goes from there: Ok(other), Err(err) and a failed
\* do_or_err! return an empty token stream, the awaited reply expands to
\* the callback (flush_output! has none)
after_reply_lenient(cb, ok) == IF cb = "end" THEN "halted" ELSE "move"

after_reply(cb, ok) ==
    IF ~ok THEN "error" ELSE IF cb = "end" THEN "halted" ELSE "move"

ReceiveReply ==
    /\ phase = "await"
    /\ conn.inbox # <<>>
    /\ LET m == Head(conn.inbox)
           awaited == m.kind = awaited_reply(conn.req.kind)
       IN  \E up \in BOOLEAN :
            /\ xlog' = xlog \o reply_events(m, awaited, up)
            /\ phase' = after_reply(conn.cb, awaited /\ up)
            /\ stack' = IF awaited /\ up THEN callback_stack(conn.cb, m, stack)
                        ELSE stack
    /\ conn' = NoConn
    /\ UNCHANGED <<ar, ld, report, ifp, dir, stringmode, bridge, progstate, debug, last>>

(***************************************************************************)
(* befunge_step @move                                                      *)
(***************************************************************************)
Move_either_way ==
    /\ phase = "move"
    /\ \E d \in {dir, "down"} :
        LET m == move(progstate, d)
        IN  IF m.ok
            THEN progstate' = m.ps /\ phase' = "instr" /\ last' = last
            ELSE progstate' = progstate /\ phase' = "error" /\ last' = "move"
    /\ UNCHANGED <<ar, ld, report, ifp, stack, dir, stringmode, bridge, debug, conn, xlog>>

Move ==
    /\ phase = "move"
    /\ LET m == move(progstate, dir)
       IN  IF m.ok
           THEN progstate' = m.ps /\ phase' = "instr" /\ last' = last
           ELSE progstate' = progstate /\ phase' = "error" /\ last' = "move"
    /\ UNCHANGED <<ar, ld, report, ifp, stack, dir, stringmode, bridge, debug, conn, xlog>>

(***************************************************************************)
(* befunge! { file, flags }: the program is loaded and befunge_step @init   *)
(* puts the pointer on the first cell.                                     *)
(***************************************************************************)
Programs ==
    {<<"&", "&", op, ".", "@">> : op \in {"+", "-", "*", "/", "%", "grave"}}
    \cup {<<"&", op, ".", "@">> : op \in {"!", ":", "\\", "$", ",", "+", "-", "*"}}
    \cup {<<op, ".", "@">> : op \in {"+", "-", "*"}}
    \cup {<<"/", ".", "@">>, <<"%", ".", "@">>, <<"~", ".", "@">>,
          <<":", "/", "@">>, <<":", "%", "@">>, <<"+", "!", "@">>,
          <<"1", "x">>, <<"\"", "a", "\"", ",", "@">>,
          <<"#", "@", "v", "\n", " ", ">", "^", "v", "\n", " ", "^", "<", "<">>,
          <<"&", "|", "\n", "5", "\n", "7", ".", "@">>,
          <<"&", "_", "9", "@">>, <<"?", "@">>,
          <<"1", "\n", "2", "\n", "3", "\n", "4">>,
          <<"1", "2", "3", "4", "5", "6", "7">>,
          <<"&", "2", ":", "p", "v", "\n", "@", "g", ":", "2", "<">>,
          <<"&", "&", "&", "p", "@">>, <<"&", "&", "g", "@">>,
          <<"1", "&", "&", "g", "@">>, <<"p", "@">>, <<"g", "@">>,
          <<"9", "0", "g", "@">>, <<"0", "9", "g", "@">>,
          <<"1", "9", "0", "p", "@">>, <<"1", "0", "9", "p", "@">>,
          <<" ">>, <<"^">>, <<"v">>, <<"<">>, <<"v", "\n", ">">>,
          <<"#", "x", "@">>, <<"#", "\"", "@">>,
          <<"1", "5", "0", "p", "\"">>,
          <<"5", "3", "-", ".">>,
          <<"1", "p", "@">>, <<"2", "1", "p", "@">>,
          <<"\"", "#", "\"", "@">>, <<"1", "3", "0", "p", "@">>,
          <<"#", "@", "v", "\n", ">", "^", "v", "\n", "^", "<", "<", "\n">>}

DebugFlags == SUBSET {"closeonend", "noflush"}

\* what a step of the interface process writes to its terminal from the
\* buffer: print!("{buf}") (nl FALSE) or println!("{buf}") (nl TRUE)
NoPrint == [text |-> <<>>, nl |-> FALSE]

IdleIf ==
    [state |-> "idle", err |-> "none", expecting_ack |-> FALSE, buf |-> <<>>,
     got |-> Msg("", 0), sent |-> <<>>, printed |-> NoPrint, sock |-> ""]

IdleArith == [op |-> "idle", a |-> NoOperand, b |-> NoOperand, out |-> NoOutcome]

NotLoaded == [err |-> "none", program |-> <<>>]

IdleLoad == [text |-> <<>>, done |-> TRUE, out |-> NotLoaded]

InitInterp ==
    /\ ar = IdleArith
    /\ \E text \in Programs, flags \in DebugFlags :
        LET loaded == befunge_init(text)
        IN  /\ debug = flags
            /\ progstate = befunge_step_init(
                   IF loaded.err = "none" THEN loaded.program
                   ELSE befunge_init(<<>>).program)
            /\ phase = IF loaded.err = "none" THEN "instr" ELSE "error"
            /\ last = IF loaded.err = "none" THEN "init" ELSE loaded.err
    /\ stack = <<>>
    /\ dir = "right"
    /\ stringmode = FALSE
    /\ bridge = FALSE
    /\ conn = NoConn
    /\ xlog = <<>>
    /\ ld = IdleLoad
    /\ report = NoReport

Init == InitInterp /\ ifp = IdleIf

Next ==
    \/ StringModeStep
    \/ BridgeSkip
    \/ Instr_EMP
    \/ Instr_ADD
    \/ Instr_SUB
    \/ Instr_MUL
    \/ Instr_DIV
    \/ Instr_MOD
    \/ Instr_NOT
    \/ Instr_GRT
    \/ Instr_PC
    \/ Instr_PC_random
    \/ Instr_IFH
    \/ Instr_IFV
    \/ Instr_STG
    \/ Instr_BDG
    \/ Instr_DUP
    \/ Instr_SWP
    \/ Instr_POP
    \/ Instr_NM
    \/ Instr_GET
    \/ Instr_PUT
    \/ Instr_INT
    \/ Instr_CHR
    \/ Instr_INI
    \/ Instr_INC
    \/ Instr_END
    \/ Instr_UNKNOWN
    \/ InterfaceReplies
    \/ ReceiveReply
    \/ Move

Spec == Init /\ [][Next]_vars

\* rustc goes on expanding as long as some rule takes the tokens; only the
\* peer's answer on a socket is not in its hands
Expands == Next /\ ~(phase = "await" /\ conn.inbox = <<>>)

SpecFair == Init /\ [][Next]_vars /\ WF_vars(Expands)

(***************************************************************************)
(* The arithmetic macros on their own: operands are drawn, one macro is    *)
(* expanded, and its outcome is recorded.                                  *)
(***************************************************************************)
Operands ==
    {Num("none", 0)} \cup {Num(s, m) : s \in {"pos", "neg"}, m \in 0..MaxOperand}


InitArith ==
    /\ \E a \in Operands, b \in Operands :
           ar = [op |-> "none", a |-> a, b |-> b, out |-> NoOutcome]
    /\ stack = <<>>
    /\ dir = "right"
    /\ stringmode = FALSE
    /\ bridge = FALSE
    /\ progstate = befunge_step_init(befunge_init(<<>>).program)
    /\ debug = {}
    /\ phase = "idle"
    /\ last = "none"
    /\ conn = NoConn
    /\ xlog = <<>>
    /\ ifp = IdleIf
    /\ ld = IdleLoad
    /\ report = NoReport

ExpandAdd ==
    /\ ar.op = "none"
    /\ ar' = [ar EXCEPT !.op = "add", !.out = Res(arith_add(ar.a, ar.b))]
    /\ UNCHANGED <<interp, phase, last, conn, xlog, ifp, ld, report>>

ExpandSub ==
    /\ ar.op = "none"
    /\ ar' = [ar EXCEPT !.op = "sub", !.out = Res(arith_sub(ar.a, ar.b))]
    /\ UNCHANGED <<interp, phase, last, conn, xlog, ifp, ld, report>>

ExpandMul ==
    /\ ar.op = "none"
    /\ ar' = [ar EXCEPT !.op = "mul", !.out = Res(arith_mul(ar.a, ar.b))]
    /\ UNCHANGED <<interp, phase, last, conn, xlog, ifp, ld, report>>

ExpandDiv ==
    /\ ar.op = "none"
    /\ ar' = [ar EXCEPT !.op = "div", !.out = arith_div(ar.a, ar.b)]
    /\ UNCHANGED <<interp, phase, last, conn, xlog, ifp, ld, report>>

ExpandMod ==
    /\ ar.op = "none"
    /\ ar' = [ar EXCEPT !.op = "mod", !.out = arith_mod(ar.a, ar.b)]
    /\ UNCHANGED <<interp, phase, last, conn, xlog, ifp, ld, report>>

NextArith ==
    \/ ExpandAdd
    \/ ExpandSub
    \/ ExpandMul
    \/ ExpandDiv
    \/ ExpandMod

SpecArith == InitArith /\ [][NextArith]_vars

(***************************************************************************)
(* befunge_init on its own: a program text is drawn and loaded.            *)
(***************************************************************************)
MaxText == Columns + 2

TextChars == {"a", "b", "\n"}

Texts == UNION {[1..n -> TextChars] : n \in 0..MaxText}

InitLoad ==
    /\ \E t \in Texts : ld = [text |-> t, done |-> FALSE, out |-> NotLoaded]
    /\ ar = IdleArith
    /\ stack = <<>>
    /\ dir = "right"
    /\ stringmode = FALSE
    /\ bridge = FALSE
    /\ progstate = befunge_step_init(befunge_init(<<>>).program)
    /\ debug = {}
    /\ phase = "idle"
    /\ last = "none"
    /\ conn = NoConn
    /\ xlog = <<>>
    /\ ifp = IdleIf
    /\ report = NoReport

\* befunge_init @init and the @lines rules it expands to, up to
\* befunge_step @init or befunge_error @initerr
Load ==
    /\ ~ld.done
    /\ ld' = [ld EXCEPT !.done = TRUE, !.out = befunge_init(ld.text)]
    /\ UNCHANGED <<ar, interp, phase, last, conn, xlog, ifp, report>>

NextLoad == Load

SpecLoad == InitLoad /\ [][NextLoad]_vars

(***************************************************************************)
(* The interface process (befunge-if/src/main.rs): await_open_connection   *)
(* accepts one connection at a time and run_connection serves it.  The     *)
(* client may write any value of enum Request; the user types the answers. *)
(***************************************************************************)
Bytes == {0, 10, 65, 127, 128, 255}

ClientMessages ==
    {Msg(k, 0) : k \in {"OpenConnection", "Ack", "Nack", "DivByZero", "ModByZero",
                        "GetInteger", "GetAscii", "FlushOutput", "Debug",
                        "CloseConnection", "CloseUi"}}
    \cup {Msg(k, n) : k \in {"DivByZeroAns", "ModByZeroAns", "PrintInteger",
                             "GetIntegerAns"},
                      n \in IntAnswers}
    \cup {Msg(k, c) : k \in {"PrintAscii", "GetAsciiAns"}, c \in Bytes}

InitIf ==
    /\ ifp = [state |-> "accept", err |-> "none", expecting_ack |-> FALSE,
              buf |-> <<>>, got |-> Msg("", 0), sent |-> <<>>,
              printed |-> NoPrint, sock |-> ""]
    /\ ar = IdleArith
    /\ stack = <<>>
    /\ dir = "right"
    /\ stringmode = FALSE
    /\ bridge = FALSE
    /\ progstate = befunge_step_init(befunge_init(<<>>).program)
    /\ debug = {}
    /\ phase = "idle"
    /\ last = "none"
    /\ conn = NoConn
    /\ xlog = <<>>
    /\ ld = IdleLoad
    /\ report = NoReport

NotIf == UNCHANGED <<ar, ld, report, interp, phase, last, conn, xlog>>

\* if !buf.is_empty() { println!("{buf}") }
println_buf(b) == [text |-> b, nl |-> b # <<>>]

\* if !buf.is_empty() { print!("{buf}") }
print_buf(b) == [text |-> b, nl |-> FALSE]

\* lstn.accept(): a connection, with expecting_ack = false, or an error,
\* which leaves the loop: the buffer is printed and the process ends
IfAccept ==
    /\ ifp.state = "accept"
    /\ \E up \in BOOLEAN :
        ifp' = IF up
               THEN [ifp EXCEPT !.state = "read", !.expecting_ack = FALSE,
                                !.printed = NoPrint]
               ELSE [ifp EXCEPT !.state = "exited", !.err = "accept",
                                !.printed = println_buf(ifp.buf)]
    /\ NotIf

\* from_reader yields the request m
reads(m) == ifp.state = "read" /\ m \in ClientMessages

\* the arm wrote reply (or the write failed and ? ends the process, the
\* buffer not being printed)
replied(m, reply, up, eack, b) ==
    IF up
    THEN [ifp EXCEPT !.got = m, !.sent = <<reply>>, !.expecting_ack = eack,
                     !.buf = b, !.printed = NoPrint]
    ELSE [ifp EXCEPT !.got = m, !.sent = <<>>, !.state = "exited",
                     !.err = "io", !.buf = b, !.printed = NoPrint]

\* the arm printed p before it wrote its reply
printing(p, next) == [next EXCEPT !.printed = p]

\* div_by_zero, mod_by_zero, ask_for_integer: the buffer is printed, the
\* user is prompted, the answer is written and flushed
IfDivByZero ==
    /\ reads(Msg("DivByZero", 0))
    /\ \E val \in IntAnswers, up \in BOOLEAN :
        ifp' = printing(print_buf(ifp.buf),
                        replied(Msg("DivByZero", 0), Msg("DivByZeroAns", val), up, TRUE, <<>>))
    /\ NotIf

IfModByZero ==
    /\ reads(Msg("ModByZero", 0))
    /\ \E val \in IntAnswers, up \in BOOLEAN :
        ifp' = printing(print_buf(ifp.buf),
                        replied(Msg("ModByZero", 0), Msg("ModByZeroAns", val), up, TRUE, <<>>))
    /\ NotIf

IfGetInteger ==
    /\ reads(Msg("GetInteger", 0))
    /\ \E val \in IntAnswers, up \in BOOLEAN :
        ifp' = printing(print_buf(ifp.buf),
                        replied(Msg("GetInteger", 0), Msg("GetIntegerAns", val), up, TRUE, <<>>))
    /\ NotIf

\* prompt_for_char only returns an ASCII byte
IfGetAscii ==
    /\ reads(Msg("GetAscii", 0))
    /\ \E val \in AsciiAnswers, up \in BOOLEAN :
        ifp' = printing(print_buf(ifp.buf),
                        replied(Msg("GetAscii", 0), Msg("GetAsciiAns", val), up, TRUE, <<>>))
    /\ NotIf

IfPrintInteger ==
    /\ \E num \in IntAnswers, up \in BOOLEAN :
        /\ reads(Msg("PrintInteger", num))
        /\ Len(ifp.buf) < MaxBuf
        /\ ifp' = replied(Msg("PrintInteger", num), Msg("Ack", 0), up,
                          ifp.expecting_ack, Append(ifp.buf, Msg("int", num)))
    /\ NotIf

\* a newline prints the buffer; any other byte goes through
\* ascii::Char::from_u8(c).unwrap(), which panics for c >= 128
IfPrintAscii ==
    /\ \E c \in Bytes, up \in BOOLEAN :
        /\ reads(Msg("PrintAscii", c))
        /\ IF c = 10
           THEN ifp' = printing([text |-> ifp.buf, nl |-> TRUE],
                                replied(Msg("PrintAscii", c), Msg("Ack", 0), up,
                                        ifp.expecting_ack, <<>>))
           ELSE IF c < 128
           THEN /\ Len(ifp.buf) < MaxBuf
                /\ ifp' = replied(Msg("PrintAscii", c), Msg("Ack", 0), up,
                                  ifp.expecting_ack,
                                  Append(ifp.buf, Msg("char", c)))
           ELSE ifp' = [ifp EXCEPT !.got = Msg("PrintAscii", c), !.sent = <<>>,
                                   !.state = "panicked", !.printed = NoPrint]
    /\ NotIf

IfFlushOutput_discarding ==
    /\ reads(Msg("FlushOutput", 0))
    /\ \E up \in BOOLEAN :
        ifp' = replied(Msg("FlushOutput", 0), Msg("Ack", 0), up,
                       ifp.expecting_ack, <<>>)
    /\ NotIf

\* if !buf.is_empty() { println!("{buf}"); buf.clear() }, then Ack
IfFlushOutput ==
    /\ reads(Msg("FlushOutput", 0))
    /\ \E up \in BOOLEAN :
        ifp' = printing(println_buf(ifp.buf),
                        replied(Msg("FlushOutput", 0), Msg("Ack", 0), up,
                                ifp.expecting_ack, <<>>))
    /\ NotIf

IfDebug ==
    /\ reads(Msg("Debug", 0))
    /\ \E up \in BOOLEAN :
        ifp' = replied(Msg("Debug", 0), Msg("Ack", 0), up, ifp.expecting_ack,
                       ifp.buf)
    /\ NotIf

\* Ok(Request::Ack) if expecting_ack
IfAck ==
    /\ reads(Msg("Ack", 0))
    /\ ifp.expecting_ack
    /\ ifp' = [ifp EXCEPT !.got = Msg("Ack", 0), !.sent = <<>>,
                          !.expecting_ack = FALSE, !.printed = NoPrint]
    /\ NotIf

IfCloseUi_keeps_running ==
    /\ reads(Msg("CloseUi", 0))
    /\ ifp' = [ifp EXCEPT !.got = Msg("CloseUi", 0), !.sent = <<>>,
                          !.state = "accept", !.printed = NoPrint]
    /\ NotIf

\* return Ok(true): await_open_connection leaves its loop, prints the
\* buffer and returns
IfCloseUi ==
    /\ reads(Msg("CloseUi", 0))
    /\ ifp' = [ifp EXCEPT !.got = Msg("CloseUi", 0), !.sent = <<>>,
                          !.state = "exited", !.printed = println_buf(ifp.buf)]
    /\ NotIf

IfCloseConnection_exits ==
    /\ reads(Msg("CloseConnection", 0))
    /\ ifp' = [ifp EXCEPT !.got = Msg("CloseConnection", 0), !.sent = <<>>,
                          !.state = "exited", !.printed = NoPrint]
    /\ NotIf

\* return Ok(false): back to accept
IfCloseConnection ==
    /\ reads(Msg("CloseConnection", 0))
    /\ ifp' = [ifp EXCEPT !.got = Msg("CloseConnection", 0), !.sent = <<>>,
                          !.state = "accept", !.printed = NoPrint]
    /\ NotIf

\* the kinds that fall through to the arm Ok(other)
unserved(eack) ==
    {"OpenConnection", "Nack", "DivByZeroAns", "ModByZeroAns", "GetIntegerAns",
     "GetAsciiAns"} \cup (IF eack THEN {} ELSE {"Ack"})

nacked_silently(m, up) ==
    [ifp EXCEPT !.got = m, !.sent = <<>>, !.state = "accept", !.printed = NoPrint]

\* Nack is written and flushed, and run_connection returns Ok(false)
nacked(m, up) ==
    IF up
    THEN [ifp EXCEPT !.got = m, !.sent = <<Msg("Nack", 0)>>, !.state = "accept",
                     !.printed = NoPrint]
    ELSE [ifp EXCEPT !.got = m, !.sent = <<>>, !.state = "exited", !.err = "io",
                     !.printed = NoPrint]

IfOther_keeps_open ==
    /\ \E m \in ClientMessages :
        /\ reads(m)
        /\ m.kind \in unserved(ifp.expecting_ack)
        /\ ifp' = [ifp EXCEPT !.got = m, !.sent = <<>>, !.printed = NoPrint]
    /\ NotIf

\* any other message: Nack is written and the connection is dropped
IfOther ==
    /\ \E m \in ClientMessages, up \in BOOLEAN :
        /\ reads(m)
        /\ m.kind \in unserved(ifp.expecting_ack)
        /\ ifp' = nacked(m, up)
    /\ NotIf

\* from_reader fails (the client hung up, or the bytes do not parse)
IfReadError ==
    /\ ifp.state = "read"
    /\ ifp' = [ifp EXCEPT !.got = Msg("Err", 0), !.sent = <<>>,
                          !.state = "exited", !.err = "read", !.printed = NoPrint]
    /\ NotIf

NextIf ==
    \/ IfAccept
    \/ IfDivByZero
    \/ IfModByZero
    \/ IfGetInteger
    \/ IfGetAscii
    \/ IfPrintInteger
    \/ IfPrintAscii
    \/ IfFlushOutput
    \/ IfDebug
    \/ IfAck
    \/ IfCloseUi
    \/ IfCloseConnection
    \/ IfOther
    \/ IfReadError

SpecIf == InitIf /\ [][NextIf]_vars

(***************************************************************************)
(* The end of the program against an interface process: the process        *)
(* listens on one of the two sockets, and what the '@' rule writes to that *)
(* socket is what the process reads (the peer on the other socket, and     *)
(* every exchange before the '@', are as in Spec).                         *)
(***************************************************************************)
Sockets == {"befunge.output", "befunge.input"}

\* what the process may hold in its buffer when the program ends
HaltBufs == {<<>>, <<Msg("int", 1)>>}

InitHalt ==
    /\ InitInterp
    /\ \E s \in Sockets :
        \E b \in (IF s = "befunge.output" THEN HaltBufs ELSE {<<>>}) :
            ifp = [state |-> "accept", err |-> "none", expecting_ack |-> FALSE,
                   buf |-> b, got |-> Msg("", 0), sent |-> <<>>,
                   printed |-> NoPrint, sock |-> s]

\* what the procedural macros whose events are x did on socket s, in
\* order: a connection made, then the requests written on it
RECURSIVE written_to(_, _, _)
written_to(x, s, cur) ==
    IF x = <<>> THEN <<>>
    ELSE LET e == Head(x)
         IN  IF e.ev = "connect"
             THEN (IF e.what = s THEN <<Msg("connect", 0)>> ELSE <<>>)
                      \o written_to(Tail(x), s, e.what)
             ELSE IF e.ev = "send" /\ cur = s
             THEN <<Msg(e.what, e.val)>> \o written_to(Tail(x), s, cur)
             ELSE IF e.ev = "failed" /\ e.what \in Sockets
             THEN written_to(Tail(x), s, "")
             ELSE written_to(Tail(x), s, cur)

\* how much of it the process has taken: nothing, the connection, the
\* first request, or all there can be
taken ==
    IF ifp.got.kind = "" /\ ifp.state = "accept" THEN 0
    ELSE IF ifp.got.kind = "" /\ ifp.state = "read" THEN 1
    ELSE IF ifp.got.kind = "FlushOutput" THEN 2
    ELSE 3

\* m is what the process gets next from its listener or its connection
pending(m) ==
    /\ last = "END"
    /\ LET w == written_to(xlog, ifp.sock, "")
       IN  taken < Len(w) /\ w[taken + 1] = m

HaltAccept == pending(Msg("connect", 0)) /\ IfAccept

HaltFlushOutput == pending(Msg("FlushOutput", 0)) /\ IfFlushOutput

HaltCloseUi == pending(Msg("CloseUi", 0)) /\ IfCloseUi

HaltCloseConnection == pending(Msg("CloseConnection", 0)) /\ IfCloseConnection

\* the macro has returned and dropped its connection with nothing more
\* written: from_reader fails
HaltHangUp ==
    /\ last = "END"
    /\ phase # "await"
    /\ taken = Len(written_to(xlog, ifp.sock, ""))
    /\ IfReadError

\* flush_output! reads what the process wrote in reply to FlushOutput, or
\* fails to read when the process has ended without writing
answered ==
    /\ ifp.got.kind = "FlushOutput" \/ ifp.state = "exited"
    /\ conn'.inbox = IF ifp.got.kind = "FlushOutput" /\ ifp.sent # <<>>
                     THEN ifp.sent
                     ELSE <<Msg("Err", 0)>>

HaltStep ==
    /\ Next
    /\ (phase = "await" /\ conn.inbox = <<>> /\ last = "END"
          /\ conn.sock = ifp.sock) => answered

HaltIf ==
    \/ HaltAccept
    \/ HaltFlushOutput
    \/ HaltCloseUi
    \/ HaltCloseConnection
    \/ HaltHangUp

NextHalt == HaltStep \/ HaltIf

\* the interface process is running: it takes what is there for it
SpecHalt == InitHalt /\ [][NextHalt]_vars /\ WF_vars(HaltIf)

(***************************************************************************)
(* Claims                                                                  *)
(***************************************************************************)
\* integer quotient truncated toward zero, for the statement of C1 and C2
TruncDiv(x, y) ==
    LET ax == IF x < 0 THEN 0 - x ELSE x
        ay == IF y < 0 THEN 0 - y ELSE y
        q  == ax \div ay
    IN  IF (x < 0) = (y < 0) THEN q ELSE 0 - q

\* C1: for every a and every b # 0, arith_div yields the quotient of a by b
\* truncated toward zero (0 when |a| < |b|), without asking the interface.
C1_DivTruncates ==
    (ar.op = "div" /\ num_value(ar.b) # 0) =>
        /\ ar.out.ask = "none"
        /\ num_value(ar.out.res) = TruncDiv(num_value(ar.a), num_value(ar.b))
        /\ (ar.a.mag < ar.b.mag => num_value(ar.out.res) = 0)

C1_Witness ==
    /\ ar.op = "div"
    /\ num_value(ar.a) = 0 - 5
    /\ num_value(ar.b) = 2
    /\ num_value(ar.out.res) = 0 - 2

\* C2: for every a and every b # 0 the quotient q of arith_div and the
\* remainder r of arith_mod satisfy a = b*q + r, and r is zero or has the
\* sign of a.
C2_DivModIdentity ==
    (ar.op = "mod" /\ num_value(ar.b) # 0) =>
        LET q == num_value(arith_div(ar.a, ar.b).res)
            r == num_value(ar.out.res)
        IN  /\ ar.out.ask = "none"
            /\ arith_div(ar.a, ar.b).ask = "none"
            /\ num_value(ar.a) = num_value(ar.b) * q + r
            /\ (r = 0 \/ ((r < 0) = (num_value(ar.a) < 0)))

C2_Witness ==
    /\ ar.op = "mod"
    /\ num_value(ar.a) = 0 - 5
    /\ num_value(ar.b) = 2
    /\ num_value(ar.out.res) = 0 - 1

\* C3: arith_add, arith_sub and arith_mul yield a + b, a - b and a * b for
\* every combination of signs and zeros of the operands.
C3_AddSubMulExact ==
    /\ ar.op = "add" => num_value(ar.out.res) = num_value(ar.a) + num_value(ar.b)
    /\ ar.op = "sub" => num_value(ar.out.res) = num_value(ar.a) - num_value(ar.b)
    /\ ar.op = "mul" => num_value(ar.out.res) = num_value(ar.a) * num_value(ar.b)

C3_Witness ==
    /\ ar.op = "sub"
    /\ num_value(ar.a) = 2
    /\ num_value(ar.b) = 5
    /\ num_value(ar.out.res) = 0 - 3

\* C4: zero is always non-negative: no value on the stack is negative zero
\* ([[neg] []]) in any reachable state of a run.
C4_NoNegativeZero ==
    \A i \in 1..Len(stack) : ~(stack[i].sgn = "neg" /\ stack[i].mag = 0)

\* (-1) - (-1), both typed in by the user, has left [[neg] []] on the stack
C4_Witness ==
    /\ last = "SUB"
    /\ phase = "move"
    /\ stack = <<Num("neg", 0)>>

\* C5: when '/' is executed with s0 = 0 and s1 nonzero, the interpreter
\* suspends on a DivByZero request (it reaches for the input socket; only a
\* failure to connect can keep it from waiting for the answer).
C5_DivByZeroSuspends ==
    [][(normal("/") /\ Len(stack) >= 2 /\ stack[1].mag = 0 /\ stack[2].mag # 0)
         => /\ xlog' # <<>>
            /\ xlog'[1].what = "befunge.input"
            /\ phase' \in {"await", "error"}
            /\ phase' = "await" => conn'.req.kind = "DivByZero"]_vars

\* 2 and 0 were typed in, '/' was expanded, and the run is over without
\* anything having been written to a socket
C5_Witness ==
    /\ last = "DIV"
    /\ phase = "error"
    /\ xlog = <<>>
    /\ Len(stack) = 2
    /\ stack[1] = Num("pos", 0)
    /\ stack[2] = Num("pos", 2)

\* C6: whenever '/' or '%' is executed with s0 = 0 (whatever the dividend,
\* defaulted operands included), the instruction never goes on with a
\* result it has not asked the interface for.
C6_ZeroDivisorAlwaysAsks ==
    [][(/\ phase = "instr" /\ ~stringmode /\ ~bridge
        /\ Cur \in {"/", "%"}
        /\ operand(stack, 1).mag = 0)
         => phase' # "move"]_vars

\* '/' on the empty stack has pushed 0 and gone on, with no request sent
C6_Witness ==
    /\ last = "DIV"
    /\ phase = "move"
    /\ xlog = <<>>
    /\ stack = <<Num("pos", 0)>>

\* the socket and the request of the instructions that talk to the interface
exchange_socket(rule) ==
    IF rule \in {"INT", "CHR"} THEN "befunge.output" ELSE "befunge.input"

exchange_request(rule) ==
    CASE rule = "INT" -> "PrintInteger"
      [] rule = "CHR" -> "PrintAscii"
      [] rule = "INI" -> "GetInteger"
      [] rule = "INC" -> "GetAscii"
      [] rule = "DIV" -> "DivByZero"
      [] OTHER -> "ModByZero"

C8_BlockedDuringExchange ==
    [][/\ (phase' = "await") <=> (conn' # NoConn)
       /\ phase' = "await" => (Len(xlog') = 2 /\ xlog'[2].ev = "send")
       /\ (phase = "await" /\ conn.inbox = <<>>)
            => (UNCHANGED <<interp, phase, last, xlog>> /\ conn'.req = conn.req)
       /\ (phase = "await" /\ phase' = "await") => UNCHANGED interp]_vars

\* the second '&' of a program is waiting for its answer
C8_Witness ==
    /\ phase = "await"
    /\ conn.req.kind = "GetInteger"
    /\ conn.inbox = <<>>
    /\ Len(stack) = 1

\* C9: a reply of an unexpected kind (Nack included), a failed read, and a
\* failed connect or write are fatal: the run is in error, the interpreter's
\* state is left as it was, nothing more is sent, and from an error no
\* step is ever taken.
C9_BadReplyIsFatal ==
    [][/\ phase = "error" => UNCHANGED vars
       /\ (/\ phase = "await" /\ conn.inbox # <<>>
           /\ Head(conn.inbox).kind # awaited_reply(conn.req.kind))
            => /\ phase' = "error"
               /\ UNCHANGED interp
               /\ conn' = NoConn
               /\ xlog' = xlog \o <<Ev("recv", Head(conn.inbox).kind,
                                       Head(conn.inbox).val)>>
       /\ (\E i \in 1..Len(xlog') : xlog'[i].ev = "failed") => phase' = "error"]_vars

\* '&' was answered by Nack
C9_Witness ==
    /\ phase = "error"
    /\ last = "INI"
    /\ Len(xlog) = 3
    /\ xlog[3] = Ev("recv", "Nack", 0)

\* the reply the message table pairs with a request
paired_reply(k) ==
    CASE k = "DivByZero" -> "DivByZeroAns"
      [] k = "ModByZero" -> "ModByZeroAns"
      [] k = "GetInteger" -> "GetIntegerAns"
      [] k = "GetAscii" -> "GetAsciiAns"
      [] OTHER -> "Ack"

\* C10: for every request of kind DivByZero, ModByZero, GetInteger,
\* GetAscii, PrintInteger, PrintAscii, FlushOutput or Debug that the
\* interface process has received, it has sent exactly one reply, of the
\* paired kind (unless writing to the connection failed).
C10_OneReplyPerRequest ==
    (/\ ifp.got.kind \in {"DivByZero", "ModByZero", "GetInteger", "GetAscii",
                          "PrintInteger", "PrintAscii", "FlushOutput", "Debug"}
     /\ ifp.err # "io")
        => /\ Len(ifp.sent) = 1
           /\ ifp.sent[1].kind = paired_reply(ifp.got.kind)

\* PrintAscii(255) was received and the process is gone without a reply
C10_Witness ==
    /\ ifp.state = "panicked"
    /\ ifp.got = Msg("PrintAscii", 255)
    /\ ifp.sent = <<>>

\* C11 as stated: the interface process terminates only after it has
\* received CloseUi (failures of accept and of writing set aside).
C11_ExitsOnlyOnCloseUi ==
    (ifp.state = "exited" /\ ifp.err \notin {"accept", "io"})
        => ifp.got.kind = "CloseUi"

\* C11, amended: every accepted connection starts afresh, CloseConnection
\* ends only the connection (the process accepts again), CloseUi ends the
\* process, and the process also ends when reading a request fails (the
\* client dropped the connection), or when accept or a write fails.
C11_ExitsOnCloseUiOrFailure ==
    [][/\ (ifp.state = "accept" /\ ifp'.state = "read") => ~ifp'.expecting_ack
       /\ (ifp.state = "read" /\ ifp'.got.kind = "CloseConnection")
            => (ifp'.state = "accept" /\ ifp'.err = "none")
       /\ (ifp.state = "read" /\ ifp'.got.kind = "CloseUi")
            => ifp'.state = "exited"
       /\ (ifp.state # "exited" /\ ifp'.state = "exited")
            => (ifp'.got.kind = "CloseUi" \/ ifp'.err \in {"read", "accept", "io"})
       /\ (ifp.state = "read" /\ ifp'.got.kind = "Err")
            => (ifp'.state = "exited" /\ ifp'.err = "read")]_vars

\* a connection was closed by CloseConnection with output still buffered,
\* and the process is accepting again
C11_Witness ==
    /\ ifp.state = "accept"
    /\ ifp.got.kind = "CloseConnection"
    /\ ifp.buf # <<>>

\* C12: a message of a kind the interface does not serve (an ...Ans
\* message, Nack, or Ack when none is expected) is answered with exactly
\* one Nack, the connection is ended and the process accepts again (unless
\* writing the Nack failed).
C12_UnservedGetsNack ==
    [][(/\ ifp.state = "read"
        /\ ifp'.got.kind \in {"Nack", "DivByZeroAns", "ModByZeroAns",
                              "GetIntegerAns", "GetAsciiAns"}
                \cup (IF ifp.expecting_ack THEN {} ELSE {"Ack"})
        /\ ifp'.err # "io")
         => /\ ifp'.sent = <<Msg("Nack", 0)>>
            /\ ifp'.state = "accept"]_vars

\* an Ack that was not expected has been answered with Nack
C12_Witness ==
    /\ ifp.got = Msg("Ack", 0)
    /\ ifp.sent = <<Msg("Nack", 0)>>
    /\ ifp.state = "accept"

\* C13 as stated: OpenConnection gets no reply and the connection stays
\* open for the request that follows.
C13_OpenConnectionAccepted ==
    [][(ifp.state = "read" /\ ifp'.got.kind = "OpenConnection" /\ ifp'.err # "io")
         => (ifp'.sent = <<>> /\ ifp'.state = "read")]_vars

\* C13, amended: OpenConnection is treated like any unexpected request: it
\* is answered with Nack and the connection is ended.
C13_OpenConnectionNacked ==
    [][(ifp.state = "read" /\ ifp'.got.kind = "OpenConnection" /\ ifp'.err # "io")
         => (ifp'.sent = <<Msg("Nack", 0)>> /\ ifp'.state = "accept")]_vars

C13_Witness ==
    /\ ifp.got = Msg("OpenConnection", 0)
    /\ ifp.sent = <<Msg("Nack", 0)>>
    /\ ifp.state = "accept"

\* the value '+', '-' and '*' are to compute from s1 (below) and s0 (top)
binop(c, s1, s0) ==
    CASE c = "+" -> s1 + s0
      [] c = "-" -> s1 - s0
      [] OTHER -> s1 * s0

\* C14: '+', '-' or '*' on a stack of fewer than two elements computes
\* the operation with 0 for each missing operand and leaves a stack of
\* exactly one element, the result; the interpreter goes on to move.
C14_MissingOperandsAreZero ==
    [][(/\ phase = "instr" /\ ~stringmode /\ ~bridge
        /\ Cur \in {"+", "-", "*"}
        /\ Len(stack) < 2)
         => /\ phase' = "move"
            /\ Len(stack') = 1
            /\ num_value(stack'[1]) =
                 binop(Cur, 0, IF stack = <<>> THEN 0 ELSE num_value(stack[1]))]_vars

\* '-' in the second cell, after one '&' answered 2: the stack is [-2]
C14_Witness ==
    /\ last = "SUB"
    /\ phase = "move"
    /\ Len(progstate.cur.pre) = 1
    /\ progstate.pre = <<>>
    /\ stack = <<Num("neg", 2)>>

\* C15: no instruction of the instruction table aborts the run because of
\* stack underflow or out-of-range coordinates: from every stack of at most
\* three values the step goes on to the movement phase (or to the exchange
\* or the halt the instruction is defined to make); only a socket that
\* cannot be reached ends the run.
C15_NoInstructionAborts ==
    [][(/\ phase = "instr" /\ ~stringmode /\ ~bridge
        /\ Cur \in Instructions
        /\ Len(stack) <= 3)
         => \/ phase' \in {"move", "await", "halted"}
            \/ \E i \in 1..Len(xlog') : xlog'[i].ev = "failed"]_vars

\* '$' was expanded with one value on the stack and the run is over in a
\* compile error, nothing having been popped
C15_Witness ==
    /\ phase = "error"
    /\ last = "POP"
    /\ Len(stack) = 1
    /\ xlog = <<>>

\* the cell in column x of row y (both counted from 0)
cell_at(ps, x, y) == rows_of(ps)[y + 1][x + 1]

in_bounds(x, y) ==
    /\ x.sgn # "neg" /\ y.sgn # "neg"
    /\ x.mag < Columns /\ y.mag < Rows

C17_GetOutOfBoundsPushesZero ==
    [][(/\ normal("g") /\ Len(stack) >= 2
        /\ ~in_bounds(stack[2], stack[1]))
         => /\ phase' = "move"
            /\ Len(stack') = Len(stack) - 1
            /\ num_value(stack'[1]) = 0
            /\ drop(stack', 1) = drop(stack, 2)
            /\ rows_of(progstate') = rows_of(progstate)]_vars

\* 'g' was expanded with y = 0 and x = 9, beyond the last column, and the
\* run is over in a compile error with both operands still on the stack
C17_Witness ==
    /\ phase = "error"
    /\ last = "GET out of bounds"
    /\ stack = <<Num("pos", 0), Num("pos", 9)>>

\* C18: an out-of-bounds 'p' (x < 0, or y < 0, or x >= Columns, or
\* y >= Rows) is a no-op: its three operands are popped, no cell changes,
\* no error is raised, and the interpreter goes on to move.
C18_PutOutOfBoundsIsNoOp ==
    [][(/\ normal("p") /\ Len(stack) >= 3
        /\ ~in_bounds(stack[2], stack[1]))
         => /\ phase' = "move"
            /\ stack' = drop(stack, 3)
            /\ rows_of(progstate') = rows_of(progstate)]_vars

\* 'p' was expanded with y = 0, x = 9 (beyond the last column) and the
\* value 1: the expansion has ended there, with no error and no next step
C18_Witness ==
    /\ phase = "dropped"
    /\ last = "PUT out of bounds"
    /\ stack = <<Num("pos", 0), Num("pos", 9), Num("pos", 1)>>

\* the pointer's column and row (both counted from 0)
col_of(ps) == Len(ps.cur.pre)

row_no(ps) == Len(ps.pre)

\* what a move leaves alone
move_frame ==
    /\ stack' = stack /\ dir' = dir
    /\ stringmode' = stringmode /\ bridge' = bridge
    /\ rows_of(progstate') = rows_of(progstate)

\* C19: wraparound right and up.  Moving right from the last column
\* (Columns - 1) of any row lands on column 0 of the same row, and moving
\* up from row 0 lands on row Rows - 1 in the same column; stack,
\* direction, flags and every cell stay as they are.
C19_WrapRightAndUp ==
    [][phase = "move"
         => /\ (dir = "right" /\ col_of(progstate) = Columns - 1)
                 => /\ phase' = "instr"
                    /\ col_of(progstate') = 0
                    /\ row_no(progstate') = row_no(progstate)
                    /\ move_frame
            /\ (dir = "up" /\ row_no(progstate) = 0)
                 => /\ phase' = "instr"
                    /\ row_no(progstate') = Rows - 1
                    /\ col_of(progstate') = col_of(progstate)
                    /\ move_frame]_vars

\* the pointer went right from column Columns - 1 of the first row and
\* stands on a further cell of that row, about to execute it
C19_Witness ==
    /\ phase = "instr"
    /\ dir = "right"
    /\ row_no(progstate) = 0
    /\ col_of(progstate) = Columns
    /\ progstate.cur.pst = <<>>

\* C20: wraparound left and down.  Moving left from column 0 of any row
\* lands on the last column of the same row, and moving down from row
\* Rows - 1 lands on row 0 in the same column; the step succeeds and the
\* cell reached is executed next.
C20_WrapLeftAndDown ==
    [][phase = "move"
         => /\ (dir = "left" /\ col_of(progstate) = 0)
                 => /\ phase' = "instr"
                    /\ col_of(progstate') = Columns - 1
                    /\ row_no(progstate') = row_no(progstate)
            /\ (dir = "down" /\ row_no(progstate) = Rows - 1)
                 => /\ phase' = "instr"
                    /\ row_no(progstate') = 0
                    /\ col_of(progstate') = col_of(progstate)]_vars

\* '<' in the first cell was executed, and the move left from column 0 has
\* ended the run in a compile error
C20_Witness ==
    /\ phase = "error"
    /\ last = "move"
    /\ dir = "left"
    /\ col_of(progstate) = 0
    /\ row_no(progstate) = 0

\* C21: in every reachable state the pointer stands on an existing cell
\* with 0 <= row < Rows and 0 <= col < Columns, and no movement step fails:
\* from any cell, in any direction, wrapping or not, the move succeeds.
C21_PointerStaysInGrid ==
    /\ row_no(progstate) < Rows
    /\ col_of(progstate) < Columns
    /\ ~(phase = "error" /\ last = "move")

\* the further cell at the end of the first row has been executed as a
\* blank, and the interpreter is about to move on from column Columns
C21_Witness ==
    /\ phase = "move"
    /\ last = "EMP"
    /\ row_no(progstate) = 0
    /\ col_of(progstate) = Columns

\* C22: after a successful load the grid is rectangular, exactly Rows rows
\* of exactly Columns cells each (the first row included), and it keeps
\* these dimensions in every reachable state, whatever is executed.
C22_GridIsRectangular ==
    ~(phase = "error" /\ last \in {"initerr rows", "initerr cols"})
        => /\ Len(rows_of(progstate)) = Rows
           /\ \A r \in 1..Len(rows_of(progstate)) :
                  Len(rows_of(progstate)[r]) = Columns

\* a 'p' has rebuilt the grid: the first row holds Columns + 1 cells and
\* the second row Columns
C22_Witness ==
    /\ last = "PUT"
    /\ phase = "move"
    /\ Len(rows_of(progstate)) = Rows
    /\ Len(rows_of(progstate)[1]) = Columns + 1
    /\ Len(rows_of(progstate)[2]) = Columns

\* the lines of a program text: "\n" ends a line, and a newline at the
\* very end of the text starts no further line
RECURSIVE split_lines(_, _, _)
split_lines(text, line, acc) ==
    IF text = <<>>
        THEN IF line = <<>> /\ acc # <<>> THEN acc ELSE acc \o <<line>>
    ELSE IF Head(text) = "\n"
        THEN split_lines(Tail(text), <<>>, acc \o <<line>>)
    ELSE split_lines(Tail(text), line \o <<Head(text)>>, acc)

lines_of(text) == split_lines(text, <<>>, <<>>)

too_many_rows(text) == Len(lines_of(text)) > Rows

too_many_cols(text) ==
    \E i \in 1..Len(lines_of(text)) : Len(lines_of(text)[i]) > Columns

\* C23: load fails with the too-many-rows error only when the text has
\* more than Rows lines, with the too-many-columns error only when some
\* line has more than Columns characters, and it succeeds exactly when the
\* text has at most Rows lines of at most Columns characters each.
C23_LoadFailsExactlyWhenTooLarge ==
    ld.done
        => /\ ld.out.err = "initerr rows" => too_many_rows(ld.text)
           /\ ld.out.err = "initerr cols" => too_many_cols(ld.text)
           /\ ld.out.err = "none"
                <=> ~too_many_rows(ld.text) /\ ~too_many_cols(ld.text)

\* an empty first line and a second line of exactly Columns characters:
\* the load has failed with the too-many-columns error
C23_Witness ==
    /\ ld.done
    /\ Len(ld.text) = Columns + 1
    /\ ld.text[1] = "\n"
    /\ \A i \in 2..Len(ld.text) : ld.text[i] = "a"
    /\ ld.out.err = "initerr cols"

\* C24: after a successful load, for every row r < Rows and column
\* c < Columns the cell (c, r) holds the c-th character of the r-th line
\* of the text when there is one and a space otherwise; a newline at the
\* end of the text makes no row and changes none.
C24_LoadedCellsAreTheText ==
    (ld.done /\ ld.out.err = "none")
        => /\ Len(ld.out.program) = Rows
           /\ \A r \in 1..Rows : \A c \in 1..Columns :
                  ld.out.program[r][c] =
                      CharCell(IF r <= Len(lines_of(ld.text))
                                  /\ c <= Len(lines_of(ld.text)[r])
                               THEN lines_of(ld.text)[r][c]
                               ELSE " ")

\* "a", newline, "ba", newline has been loaded: the second row starts with
\* 'b' and 'a' and goes on with spaces, the third row is blank
C24_Witness ==
    /\ ld.done
    /\ ld.out.err = "none"
    /\ ld.text = <<"a", "\n", "b", "a", "\n">>
    /\ ld.out.program[2][1] = CharCell("b")
    /\ ld.out.program[2][3] = CharCell(" ")
    /\ ld.out.program[3] = blank_row(Columns)

\* C25: only 'p' (and the load) changes a cell.  Every other instruction,
\* every stringmode or bridged step, every exchange on a socket and every
\* move, wrapping or not, leaves every cell of the grid as it was.
C25_OnlyPutChangesCells ==
    [][normal("p") \/ rows_of(progstate') = rows_of(progstate)]_vars

\* the pointer has wrapped from the end of the second row of "v", ">"
\* back to its '>' and the grid is still the one that was loaded
C25_Witness ==
    /\ phase = "instr"
    /\ last = "EMP"
    /\ dir = "right"
    /\ row_no(progstate) = 1
    /\ col_of(progstate) = 0
    /\ rows_of(progstate) = befunge_init(<<"v", "\n", ">">>).program

Cardinals == {"right", "left", "up", "down"}

\* C26: the direction changes only when '>', '<', '^', 'v', '_', '|' or
\* '?' is executed: no other instruction, no stringmode step, no bridged
\* step and no move (wrapping or not) changes it.  It is always one of the
\* four cardinals, and when '?' is executed each of the four can follow.
C26_DirectionChangesOnlyByItsInstructions ==
    /\ [](dir \in Cardinals)
    /\ [](normal("?") => \A d \in Cardinals : ENABLED (Instr_PC_random /\ dir' = d))
    /\ [][dir' # dir
            => /\ phase = "instr" /\ ~stringmode /\ ~bridge
               /\ Cur \in {">", "<", "^", "v", "_", "|", "?"}]_vars

\* '?' in the first cell has been executed and has turned the pointer up
C26_Witness ==
    /\ phase = "move"
    /\ last = "PC?"
    /\ dir = "up"
    /\ col_of(progstate) = 0

\* C27: when a cell is executed (bridge and stringmode clear) whose
\* character is not in the instruction table, the run stops in the
\* unknown-instruction error, which is given that character, the pointer's
\* row and column, the stack and the direction as they are; no step
\* follows an error; and no step taken in stringmode raises it.
C27_UnknownInstructionIsReported ==
    /\ [][(/\ phase = "instr" /\ ~stringmode /\ ~bridge
           /\ Cur \notin Instructions)
            => /\ phase' = "error"
               /\ last' = "UNKNOWN"
               /\ report'.instr = Cur
               /\ report'.row = row_no(progstate)
               /\ report'.col = col_of(progstate)
               /\ report'.stack = stack
               /\ report'.dir = dir
               /\ UNCHANGED interp]_vars
    /\ [][phase = "error" => UNCHANGED vars]_vars
    /\ [][stringmode => (last' # "UNKNOWN" /\ report' = NoReport)]_vars

\* 'x' in the second cell of "1x" has been reported, with 1 on the stack
C27_Witness ==
    /\ phase = "error"
    /\ last = "UNKNOWN"
    /\ report.instr = "x"
    /\ report.row = 0
    /\ report.col = 1
    /\ report.stack = <<Num("pos", 1)>>
    /\ report.dir = "right"

\* C28: bridge is a one-shot skip.  '#' sets the flag and moves on; the
\* flag is carried by the move; the cell then reached is not executed,
\* whatever it holds: stack, grid, direction and stringmode stay as they
\* are, the flag is cleared and the interpreter moves on to the cell after
\* it, which is executed with the flag clear.  Nothing but '#' sets it.
C28_BridgeSkipsOneCell ==
    /\ [][normal("#")
            => /\ phase' = "move" /\ bridge'
               /\ UNCHANGED <<stack, dir, stringmode, progstate>>]_vars
    /\ [][(phase = "move" /\ phase' = "instr") => bridge' = bridge]_vars
    /\ [][(phase = "instr" /\ bridge)
            => /\ phase' = "move" /\ ~bridge'
               /\ report' = NoReport
               /\ xlog' = <<>>
               /\ UNCHANGED <<stack, dir, stringmode, progstate>>]_vars
    /\ [][(bridge' /\ ~bridge) => normal("#")]_vars

\* the 'x' after '#' has been skipped: no error, the flag is clear again
\* and the interpreter is about to move on from the second cell
C28_Witness ==
    /\ phase = "move"
    /\ last = "bridge"
    /\ ~bridge
    /\ Cur = "x"
    /\ col_of(progstate) = 1
    /\ stack = <<>>

\* the numeric code a cell holds: the number a 'p' wrote, or the code of
\* the character
code_of_cell(cell) ==
    IF cell.ch = "" THEN num_value(Num(cell.sgn, cell.mag))
    ELSE ascii_code(cell.ch)

\* C29: while stringmode is set, a step on a cell other than the quote
\* pushes exactly one value, the numeric code the cell holds (a character
\* of the text or a number written by 'p'), and does nothing else; a step
\* on the quote clears stringmode and pushes nothing; either way the
\* interpreter goes on to move.
C29_StringmodePushesCodes ==
    [][(phase = "instr" /\ stringmode)
         => /\ phase' = "move"
            /\ UNCHANGED <<dir, bridge, progstate>>
            /\ IF Cur = "\""
               THEN ~stringmode' /\ stack' = stack
               ELSE /\ stringmode'
                    /\ Len(stack') = Len(stack) + 1
                    /\ num_value(stack'[1]) = code_of_cell(progstate.cur.cur)
                    /\ Tail(stack') = stack]_vars

\* "150p" has written the number 1 into the cell after the quote; in
\* stringmode the step on that cell has ended the run in a compile error
C29_Witness ==
    /\ phase = "error"
    /\ last = "STRINGMODE number"
    /\ stringmode
    /\ progstate.cur.cur = [ch |-> "", sgn |-> "pos", mag |-> 1]
    /\ col_of(progstate) = 5

\* C30: the greater-than instruction pops s0 and s1 (0 for an operand the
\* stack does not hold) and pushes 1 if s1 > s0 and 0 otherwise, whatever
\* the signs, equal values and two negative values included; then the
\* interpreter goes on to move.
C30_GreaterThan ==
    [][normal("grave")
         => /\ phase' = "move"
            /\ Len(stack') = Len(drop(stack, 2)) + 1
            /\ num_value(stack'[1]) =
                   (IF num_value(operand(stack, 2)) > num_value(operand(stack, 1))
                    THEN 1 ELSE 0)
            /\ Tail(stack') = drop(stack, 2)]_vars

\* -1 and -1 were typed in and the greater-than instruction in the third
\* cell is about to be expanded on these two equal negative values
C30_Witness ==
    /\ normal("grave")
    /\ stack = <<Num("neg", 1), Num("neg", 1)>>
    /\ grt(stack) = <<Num("pos", 1)>>
    /\ col_of(progstate) = 2

\* the value '-', '/' and '%' are to compute from s1 (below) and s0 (top)
ordered_op(c, s1, s0) ==
    CASE c = "-" -> s1 - s0
      [] c = "/" -> TruncDiv(s1, s0)
      [] OTHER -> s1 - s0 * TruncDiv(s1, s0)

\* the program 53-. is the one that was loaded
is_53_sub == rows_of(progstate) = befunge_init(<<"5", "3", "-", ".">>).program

\* C31: the operand order of '-', '/' and '%' is s1 op s0: with two values
\* on the stack (the divisor s0 not 0) the step replaces them by s1 - s0,
\* s1 / s0 or s1 % s0 and goes on to move; and in the program 53-. the '.'
\* sends one PrintInteger carrying 2 and leaves the stack empty.
C31_OperandOrder ==
    /\ [][(/\ phase = "instr" /\ ~stringmode /\ ~bridge
           /\ Cur \in {"-", "/", "%"}
           /\ Len(stack) >= 2
           /\ Cur # "-" => num_value(stack[1]) # 0)
            => /\ phase' = "move"
               /\ Len(stack') = Len(stack) - 1
               /\ num_value(stack'[1]) =
                      ordered_op(Cur, num_value(stack[2]), num_value(stack[1]))
               /\ Tail(stack') = drop(stack, 2)]_vars
    /\ [](is_53_sub /\ last = "INT" /\ phase = "await"
            => /\ stack = <<>>
               /\ xlog = <<Ev("connect", "befunge.output", 0),
                           Ev("send", "PrintInteger", 2)>>)

\* '/' was expanded with 2 under a 1 on the stack (&&/ answered 2 and 1)
\* and the run is over in a compile error, both operands still there
C31_Witness ==
    /\ phase = "error"
    /\ last = "DIV"
    /\ stack = <<Num("pos", 1), Num("pos", 2)>>

\* the program of befunge_init's documentation is the one that was loaded
doctest_program ==
    rows_of(progstate) =
        befunge_init(<<"#", "@", "v", "\n", ">", "^", "v", "\n",
                       "^", "<", "<", "\n">>).program

\* C32: the program with rows #@v, >^v, ^<<, started at (0,0) with the
\* empty stack, direction right, stringmode and bridge clear, comes to
\* execute its '@' (after finitely many steps, the state space being
\* finite), never with an UnknownInstruction or any other error on the
\* way, and no request is made on a socket before the '@' is executed.
C32_DoctestProgramHalts ==
    /\ (doctest_program /\ stack = <<>> /\ dir = "right" /\ ~stringmode /\ ~bridge
          /\ row_no(progstate) = 0 /\ col_of(progstate) = 0)
            => <>(last = "END")
    /\ [](doctest_program /\ last # "END"
            => /\ phase \in {"instr", "move"}
               /\ report = NoReport
               /\ conn = NoConn
               /\ xlog = <<>>)
    /\ [](doctest_program /\ "noflush" \in debug /\ "closeonend" \notin debug
            => <>(phase = "halted"))

\* the '@' of the first row was reached from below, the '#' having
\* skipped it at first, and the run has ended there
C32_Witness ==
    /\ doctest_program
    /\ last = "END"
    /\ phase = "halted"
    /\ dir = "up"
    /\ row_no(progstate) = 0
    /\ col_of(progstate) = 1
    /\ ~bridge
    /\ stack = <<>>

\* FlushOutput is among the messages the step has written
flush_sent(x) == \E i \in 1..Len(x) : x[i] = Ev("send", "FlushOutput", 0)

\* every socket the step connected to was there
sockets_up(x) == \A i \in 1..Len(x) : x[i].ev # "failed"

\* nothing is executed once '@' has been: the machine stays as it is
nothing_after_end ==
    /\ [](last = "END" => phase \in {"await", "halted", "error"})
    /\ [][last = "END"
            => /\ last' = "END"
               /\ UNCHANGED <<stack, dir, stringmode, bridge, progstate>>]_vars

\* C33 as stated: when '@' is executed (the sockets being there),
\* FlushOutput is sent to the output interface if and only if noflush is
\* not among the flags; whatever the flags, no instruction is executed
\* after '@'.
C33_FlushUnlessNoflush ==
    /\ [][normal("@") /\ sockets_up(xlog')
            => (flush_sent(xlog') <=> "noflush" \notin debug)]_vars
    /\ nothing_after_end

\* C33, amended: FlushOutput is sent on befunge.output if and only if
\* neither noflush nor closeonend is among the flags (closeonend sends
\* CloseUi in its place); whatever the flags, no instruction is executed
\* after '@'.
C33_FlushUnlessNoflushOrCloseonend ==
    /\ [][normal("@") /\ sockets_up(xlog')
            => /\ flush_sent(xlog')
                   <=> ("noflush" \notin debug /\ "closeonend" \notin debug)
               /\ flush_sent(xlog')
                   => xlog' = <<Ev("connect", "befunge.output", 0),
                                Ev("send", "FlushOutput", 0)>>]_vars
    /\ nothing_after_end

\* '@' was executed with closeonend alone: CloseUi went to both sockets
\* and no FlushOutput was sent
C33_Witness ==
    /\ last = "END"
    /\ debug = {"closeonend"}
    /\ phase = "halted"
    /\ ~flush_sent(xlog)
    /\ Len(xlog) = 4

\* CloseUi is among the messages the step has written
close_ui_sent(x) == \E i \in 1..Len(x) : x[i] = Ev("send", "CloseUi", 0)

\* C34: when '@' is executed with closeonend, CloseUi is sent to the output
\* and to the input interface process (the sockets being there), and the
\* process that is sent it terminates; without closeonend no CloseUi is
\* sent, and the interface process is still running after the program has
\* halted (unless a read or a write on its socket failed).
C34_CloseUiOnlyWithCloseonend ==
    /\ [][normal("@") /\ "closeonend" \in debug /\ sockets_up(xlog')
            => xlog' = <<Ev("connect", "befunge.output", 0), Ev("send", "CloseUi", 0),
                         Ev("connect", "befunge.input", 0), Ev("send", "CloseUi", 0)>>]_vars
    /\ (last = "END"
          /\ written_to(xlog, ifp.sock, "") = <<Msg("connect", 0), Msg("CloseUi", 0)>>)
            ~> (ifp.state = "exited")
    /\ [](ifp.state = "exited" /\ ifp.err = "none" => ifp.got = Msg("CloseUi", 0))
    /\ [](last = "END" /\ "closeonend" \notin debug
            => /\ ~close_ui_sent(xlog)
               /\ (sockets_up(xlog) /\ ifp.err = "none")
                      => ifp.state \in {"accept", "read"})

\* the input interface process has read the CloseUi that '@' wrote under
\* closeonend and has ended without an error
C34_Witness ==
    /\ last = "END"
    /\ "closeonend" \in debug
    /\ ifp.sock = "befunge.input"
    /\ ifp.state = "exited"
    /\ ifp.err = "none"
    /\ ifp.got = Msg("CloseUi", 0)

\* C35: ':' duplicates the top of the stack, a missing operand counting as
\* 0: on a non-empty stack the result has one more element, its two
\* topmost both the old top, over the rest unchanged; on the empty stack
\* the result is exactly two zeros.  The interpreter goes on to move.
C35_DupDuplicatesTheTop ==
    [][normal(":")
         => /\ phase' = "move"
            /\ IF stack = <<>>
               THEN /\ Len(stack') = 2
                    /\ num_value(stack'[1]) = 0
                    /\ num_value(stack'[2]) = 0
               ELSE /\ Len(stack') = Len(stack) + 1
                    /\ stack'[1] = stack[1]
                    /\ stack'[2] = stack[1]
                    /\ SubSeq(stack', 3, Len(stack')) = Tail(stack)]_vars

\* ':' in the second cell, after one '&' answered -2: the stack is -2, -2
C35_Witness ==
    /\ last = "DUP"
    /\ phase = "move"
    /\ col_of(progstate) = 1
    /\ stack = <<Num("neg", 2), Num("neg", 2)>>

\* C36: 'p' takes 0 for each operand the stack does not hold: with at most
\* two values on the stack, y the top and x the one under it (0 where
\* missing) being in bounds, it writes the value 0 into cell (x, y),
\* leaves the stack empty and goes on to move.
C36_PutDefaultsItsOperands ==
    [][(/\ normal("p") /\ Len(stack) <= 2
        /\ in_bounds(operand(stack, 2), operand(stack, 1)))
         => /\ phase' = "move"
            /\ stack' = <<>>
            /\ cell_at(progstate', operand(stack, 2).mag, operand(stack, 1).mag).ch = ""
            /\ cell_at(progstate', operand(stack, 2).mag, operand(stack, 1).mag).mag = 0]_vars

\* 'p' in the second cell of 1p@ was expanded with y = 1 alone on the
\* stack: the 1 is gone and cell (0, 1) is the blank it was
C36_Witness ==
    /\ last = "PUT x negative"
    /\ phase = "move"
    /\ col_of(progstate) = 1
    /\ stack = <<>>
    /\ cell_at(progstate, 0, 1) = CharCell(" ")
    /\ cell_at(progstate, 0, 0) = CharCell("1")

\* C37: the stringmode flag and the bridge flag are never both set: the
\* bridge flag is set only by '#' executed with both flags clear, the
\* stringmode flag only by '"' executed with both flags clear, and a step
\* taken with the bridge flag set clears it.
C37_StringmodeAndBridgeExclusive ==
    /\ [](~(stringmode /\ bridge))
    /\ [][/\ (bridge' /\ ~bridge) => normal("#")
          /\ (stringmode' /\ ~stringmode) => normal("\"")
          /\ (phase = "instr" /\ bridge) => ~bridge']_vars

\* in #"@ the '"' was skipped under the bridge flag: the flag is clear
\* again and stringmode was not entered
C37_Witness ==
    /\ last = "bridge"
    /\ phase = "move"
    /\ Cur = "\""
    /\ ~bridge
    /\ ~stringmode

carried(m) ==
    IF m.kind = "PrintInteger" THEN <<Msg("int", m.val)>>
    ELSE IF m.kind = "PrintAscii" THEN <<Msg("char", m.val)>>
    ELSE <<>>

\* what a step has displayed, the line break of println! included
shown_all(p) == p.text \o (IF p.nl THEN <<Msg("char", 10)>> ELSE <<>>)

\* what a step has displayed of the values it was sent: the line break of
\* println! counts only as the newline a PrintAscii carried
shown_values(p, m) ==
    p.text \o (IF p.nl /\ m = Msg("PrintAscii", 10) THEN <<Msg("char", 10)>> ELSE <<>>)

machine ==
    [stack |-> stack, dir |-> dir, stringmode |-> stringmode, bridge |-> bridge,
     progstate |-> progstate, phase |-> phase, last |-> last, conn |-> conn,
     xlog |-> xlog, report |-> report]

went(r, p, rule) ==
    [r EXCEPT !.phase = p, !.last = rule, !.conn = NoConn, !.xlog = <<>>]

pushed(res, rest, rule) ==
    went([machine EXCEPT !.stack = <<res>> \o rest], "move", rule)

requested(r, sock, req, cb, rule, up) ==
    IF up
    THEN [r EXCEPT !.conn = [sock |-> sock, req |-> req, inbox |-> <<>>, cb |-> cb],
                   !.xlog = <<Ev("connect", sock, 0), Ev("send", req.kind, req.val)>>,
                   !.phase = "await", !.last = rule]
    ELSE [r EXCEPT !.conn = NoConn, !.xlog = <<Ev("failed", sock, 0)>>,
                   !.phase = "error", !.last = rule]

popped(n) == [machine EXCEPT !.stack = drop(stack, n)]

divided(out, rule, ask, up) ==
    IF ~divmod_transcribes(stack) THEN went(machine, "error", rule)
    ELSE IF out.ask = "none" THEN pushed(out.res, drop(stack, 2), rule)
    ELSE requested(popped(2), "befunge.input", Msg(ask, 0), "arith", rule, up)

unknown ==
    [machine EXCEPT !.report = befunge_error_unknowninstr(progstate.cur.cur,
                                                         progstate, stack, dir),
                    !.phase = "error", !.last = "UNKNOWN", !.conn = NoConn,
                    !.xlog = <<>>]

got_cell ==
    LET y == operand(stack, 1)
        x == operand(stack, 2)
        found == get_cell(progstate, x.mag, y.mag)
    IN  IF y.sgn = "neg"
        THEN pushed(Num("pos", 0), drop(stack, 2), "GET y negative")
        ELSE IF x.sgn = "neg"
        THEN IF Len(stack) > 2 THEN went(machine, "error", "GET x negative")
             ELSE pushed(Num("pos", 0), <<>>, "GET x negative")
        ELSE IF coord_check(x.mag, y.mag) /\ found.ok
        THEN pushed(found.num, drop(stack, 2), "GET")
        ELSE went(machine, "error", "GET out of bounds")

put_cell ==
    LET y == operand(stack, 1)
        x == operand(stack, 2)
        orig == operand(stack, 3)
        placed == put_place(progstate, x.mag, y.mag,
                            [ch |-> "", sgn |-> orig.sgn, mag |-> orig.mag])
    IN  IF stack # <<>> /\ y.sgn = "neg"
        THEN went(popped(3), "move", "PUT y negative")
        ELSE IF Len(stack) = 1 \/ (Len(stack) >= 2 /\ x.sgn = "neg")
        THEN went(popped(3), "move", "PUT x negative")
        ELSE IF stack = <<>>
        THEN went(machine, "error", "PUT no coordinates")
        ELSE IF coord_check(x.mag, y.mag) /\ placed.ok
        THEN went([popped(3) EXCEPT !.progstate = placed.ps], "move", "PUT")
        ELSE went(machine, "dropped", "PUT out of bounds")

ended(up_out, up_in) ==
    IF "closeonend" \in debug
    THEN [machine EXCEPT !.xlog = close_ui("befunge.output", up_out)
                                      \o close_ui("befunge.input", up_in),
                         !.phase = IF up_out /\ up_in THEN "halted" ELSE "error",
                         !.conn = NoConn, !.last = "END"]
    ELSE IF "noflush" \in debug THEN went(machine, "halted", "END")
    ELSE requested(machine, "befunge.output", Msg("FlushOutput", 0), "end", "END",
                   up_out)

\* the rule of @instr that takes the cell c when both flags are clear
executed(c, d, up, up2) ==
    LET s0 == operand(stack, 1)
        s1 == operand(stack, 2)
        zero == stack = <<>> \/ s0.mag = 0
    IN  CASE c = " " -> went(machine, "move", "EMP")
          [] c = "+" -> pushed(arith_add(s0, s1), drop(stack, 2), "ADD")
          [] c = "-" -> pushed(arith_sub(s1, s0), drop(stack, 2), "SUB")
          [] c = "*" -> pushed(arith_mul(s0, s1), drop(stack, 2), "MUL")
          [] c = "/" /\ divmod_matches(stack)
                -> divided(arith_div(s1, s0), "DIV", "DivByZero", up)
          [] c = "%" /\ divmod_matches(stack)
                -> divided(arith_mod(s1, s0), "MOD", "ModByZero", up)
          [] c = "!" /\ not_matches(stack)
                -> pushed(Num("pos", IF zero THEN 1 ELSE 0), drop(stack, 1), "NOT")
          [] c = "grave" -> went([machine EXCEPT !.stack = grt(stack)], "move", "GRT")
          [] c \in {">", "<", "^", "v"}
                -> went([machine EXCEPT !.dir = pc_dir(c)], "move", "PC")
          [] c = "?" -> went([machine EXCEPT !.dir = d], "move", "PC?")
          [] c = "_" -> went([popped(1) EXCEPT !.dir = IF zero THEN "right" ELSE "left"],
                             "move", "IFH")
          [] c = "|" -> went([popped(1) EXCEPT !.dir = IF zero THEN "down" ELSE "up"],
                             "move", "IFV")
          [] c = "\"" -> went([machine EXCEPT !.stringmode = TRUE], "move", "STG")
          [] c = "#" -> went([machine EXCEPT !.bridge = TRUE], "move", "BDG")
          [] c = ":" -> went([machine EXCEPT !.stack = <<s0, s0>> \o drop(stack, 1)],
                             "move", "DUP")
          [] c = "\\" -> IF stack = <<>>
                         THEN went([machine EXCEPT !.stack = <<NoOperand, NoOperand>>],
                                   "move", "SWP")
                         ELSE went(machine, "error", "SWP")
          [] c = "$" -> went(machine, "error", "POP")
          [] c = "g" -> got_cell
          [] c = "p" -> put_cell
          [] c = "." -> requested(popped(1), "befunge.output",
                                  Msg("PrintInteger", num_value(s0)), "move", "INT", up)
          [] c = "," -> requested(popped(1), "befunge.output",
                                  Msg("PrintAscii", code_to_char(s0)), "move", "CHR", up)
          [] c = "&" -> requested(machine, "befunge.input", Msg("GetInteger", 0),
                                  "ini", "INI", up)
          [] c = "~" -> requested(machine, "befunge.input", Msg("GetAscii", 0),
                                  "inc", "INC", up)
          [] c = "@" -> ended(up, up2)
          [] \E i \in 1..Len(Digits) : Digits[i] = c
                -> pushed(Num("pos", (CHOOSE i \in 1..Len(Digits) : Digits[i] = c) - 1),
                          stack, "NM")
          [] OTHER -> unknown

\* the state after a step, as a function of the state before it and of
\* what does not come from the program: the direction d picked by '?',
\* the reply inbox the peer has written, and whether the socket could be
\* connected or written to (up, and up2 for the second socket of '@')
successor(d, inbox, up, up2) ==
    IF phase = "move"
    THEN LET m == move(progstate, dir)
         IN  IF m.ok THEN [machine EXCEPT !.progstate = m.ps, !.phase = "instr"]
             ELSE [machine EXCEPT !.phase = "error", !.last = "move"]
    ELSE IF phase = "await" /\ conn.inbox = <<>>
    THEN [machine EXCEPT !.conn = [conn EXCEPT !.inbox = inbox]]
    ELSE IF phase = "await"
    THEN LET m == Head(conn.inbox)
             ok == m.kind = awaited_reply(conn.req.kind)
         IN  [machine EXCEPT
                 !.xlog = xlog \o reply_events(m, ok, up2),
                 !.phase = after_reply(conn.cb, ok /\ up2),
                 !.stack = IF ok /\ up2 THEN callback_stack(conn.cb, m, stack)
                           ELSE stack,
                 !.conn = NoConn]
    ELSE IF stringmode
    THEN IF Cur = "\"" THEN went([machine EXCEPT !.stringmode = FALSE], "move",
                                 "STRINGMODE end")
         ELSE IF Cur = "" THEN went(machine, "error", "STRINGMODE number")
         ELSE pushed(char_to_code(ascii_code(Cur)), stack, "STRINGMODE char")
    ELSE IF bridge
    THEN went([machine EXCEPT !.bridge = FALSE], "move", "bridge")
    ELSE executed(Cur, d, up, up2)

====
